---- MODULE Spec2Model ----
(***************************************************************************)
(* libpak-tools: the comment-preserving TOML read-modify-write helper      *)
(* (internal/toml.go), the dependency-record updater                       *)
(* (carton.BuildModuleDependency.Update, in its dual-scheme and in its     *)
(* earlier form), the package dependency updater                           *)
(* (carton.PackageDependency.Update), the JVM vendors build                *)
(* (builder.BuildJvmVendorsCommand with packager.BundleBuildpack.Execute)  *)
(* and the packager's BundleComposite and CleanUpDockerImages.             *)
(*                                                                         *)
(* Representation.  A byte string is a sequence of tokens; the tokens "#"  *)
(* and " " are those characters, every other token is a run of characters  *)
(* that contains neither.  A file is a sequence of lines.  A line is       *)
(*   text : the tokens of the line up to its `= value` part (the whole     *)
(*          line when it has none),                                        *)
(*   val  : the TOML value right of `=` (NoValue when the line has none),  *)
(*   nl   : whether the line ends in "\n" (only the last line may not).    *)
(* A table (its header and the lines below it) is one line whose val is    *)
(* the table.                                                              *)
(***************************************************************************)
EXTENDS Integers, Sequences, FiniteSets, TLC

VARIABLES
    file,    \* content of the file at cfgPath / BuildModulePath
    before,  \* content of the file when the last call began
    op,      \* the call made: "none" until one is made
    fns,     \* the mutation functions handed to the call
    b,       \* the BuildModuleDependency handed to Update
    err,     \* "" or the error the call returned / reported to the exit handler
    io,      \* the os.Stat / os.ReadFile / os.WriteFile calls of the call, in order
    calls,   \* the invocations f(md) of the call, in order: the function, the md
             \* it saw and the md it left
    matched, \* the positions of the records Update rewrote in memory
    record,  \* a dependency record handed to dependencyArch
    arch,    \* what dependencyArch returned for it
    backup,  \* the file at BuildpackTOMLBackupPath: whether it exists, its content
    pc,      \* where BuildJvmVendorsCommand.Execute stands
    cmd,     \* the BuildJvmVendorsCommand
    iter,    \* the loop index of BuildMultipleBuildpacks, counted from 1
    steps,   \* the steps the build has taken on buildpack.toml, in order
    bundle,  \* the BundleBuildpack with its environment and buildpack directory
    built,   \* the files of the build directory
    execs,   \* the commands handed to the executor, in order
    earlier  \* what the earlier implementation of Update did on the same call

packagerVars == <<bundle, built, execs>>

builderVars == <<backup, pc, cmd, iter, steps>>

vars == <<file, before, op, fns, b, err, io, calls, matched, record, arch,
          backup, pc, cmd, iter, steps, bundle, built, execs, earlier>>

----------------------------------------------------------------------------
(* TOML values as Go decodes them into interface{} *)

NoValue == [none |-> TRUE]
Str(s) == [str |-> s]          \* string
Num(n) == [int |-> n]          \* int64
Arr(a) == [arr |-> a]          \* []interface{}
Tbl(m) == [tbl |-> m]          \* map[string]interface{}
Tbls(a) == [tbls |-> a]        \* []map[string]interface{}
Chan == [chan |-> TRUE]        \* a Go value the encoder rejects

IsStr(v) == "str" \in DOMAIN v
IsArr(v) == "arr" \in DOMAIN v
IsTbl(v) == "tbl" \in DOMAIN v
IsTbls(v) == "tbls" \in DOMAIN v

EmptyDoc == [k \in {} |-> NoValue]

\* dep[k] = v on a Go map
SetKey(dep, k, v) == [x \in DOMAIN dep \cup {k} |-> IF x = k THEN v ELSE dep[x]]

Line(text, val, nl) == [text |-> text, val |-> val, nl |-> nl]

\* the empty piece bytes.SplitAfter yields after a final "\n" (and for "")
EmptyPiece == Line(<<>>, NoValue, FALSE)

----------------------------------------------------------------------------
(* bytes helpers *)

\* bytes.SplitAfter(c, "\n")
SplitAfter(c) ==
    IF c = <<>> \/ c[Len(c)].nl THEN Append(c, EmptyPiece) ELSE c

\* bytes.HasPrefix(line, ch)
HasPrefix(line, ch) == line.text # <<>> /\ line.text[1] = ch

RECURSIVE TrimLeft(_)
TrimLeft(t) == IF t # <<>> /\ t[1] = " " THEN TrimLeft(Tail(t)) ELSE t

RECURSIVE TrimRight(_)
TrimRight(t) ==
    IF t # <<>> /\ t[Len(t)] = " " THEN TrimRight(SubSeq(t, 1, Len(t) - 1)) ELSE t

\* bytes.TrimSpace on the text of a line (the final "\n" is white space too)
TrimSpace(t) == TrimRight(TrimLeft(t))

\* len(bytes.TrimSpace(line)) == 0
IsBlank(line) == TrimSpace(line.text) = <<>> /\ line.val = NoValue

\* append(a, bs...) on byte slices: when a does not end in "\n" the first
\* line of bs continues the last line of a
Concat(a, bs) ==
    LET bb == SelectSeq(bs, LAMBDA p : p # EmptyPiece) IN
    IF a = <<>> \/ bb = <<>> \/ a[Len(a)].nl
    THEN a \o bb
    ELSE SubSeq(a, 1, Len(a) - 1)
           \o <<Line(a[Len(a)].text \o bb[1].text, bb[1].val, bb[1].nl)>>
           \o Tail(bb)

\* mutant: blank lines are not taken for part of the comments
RECURSIVE ScanCommentLinesOnly(_, _)
ScanCommentLinesOnly(pieces, i) ==
    IF i > Len(pieces) \/ ~HasPrefix(pieces[i], "#") THEN <<>>
    ELSE Concat(<<pieces[i]>>, ScanCommentLinesOnly(pieces, i + 1))

\* mutant: a blank line is taken for part of the comments on the first
\* line too
RECURSIVE ScanCommentsBlankFirst(_, _)
ScanCommentsBlankFirst(pieces, i) ==
    IF i > Len(pieces) THEN <<>>
    ELSE IF HasPrefix(pieces[i], "#") \/ IsBlank(pieces[i])
         THEN Concat(<<pieces[i]>>, ScanCommentsBlankFirst(pieces, i + 1))
         ELSE <<>>

\* the loop that saves the leading comments; pieces[i] is Go's line i-1
RECURSIVE ScanComments(_, _)
ScanComments(pieces, i) ==
    IF i > Len(pieces) THEN <<>>
    ELSE IF HasPrefix(pieces[i], "#") \/ (i > 1 /\ IsBlank(pieces[i]))
         THEN Concat(<<pieces[i]>>, ScanComments(pieces, i + 1))
         ELSE <<>>

LeadingComments(c) == Concat(<<>>, ScanComments(SplitAfter(c), 1))

----------------------------------------------------------------------------
(* toml.Unmarshal and utils.Marshal *)

LineKind(line) ==
    LET t == TrimSpace(line.text) IN
    IF t # <<>> /\ t[1] = "#" THEN "comment"
    ELSE IF t = <<>> THEN (IF line.val = NoValue THEN "blank" ELSE "invalid")
    ELSE IF Len(t) = 1 /\ line.val # NoValue THEN "item"
    ELSE "invalid"

KeyOf(line) == TrimSpace(line.text)[1]

\* toml.Unmarshal(c, &md): comments and blank lines are dropped, a line that
\* is neither these nor `key = value`, or a key defined twice, is an error
Unmarshal(c) ==
    LET items == SelectSeq(c, LAMBDA l : LineKind(l) = "item")
        keys == {KeyOf(items[i]) : i \in DOMAIN items}
        bad == \/ \E i \in DOMAIN c : LineKind(c[i]) = "invalid"
               \/ Cardinality(keys) # Len(items)
    IN  [err |-> bad,
         md |-> IF bad THEN EmptyDoc
                ELSE [k \in keys |->
                        items[CHOOSE i \in DOMAIN items : KeyOf(items[i]) = k].val]]

\* the top-level keys of the model in the byte order the encoder sorts by
KeyOrder == <<"a", "b", "buildpack", "buildpacks", "dependencies", "metadata">>

\* utils.Marshal(md): keys sorted, plain values before tables; no comments
Marshal(md) ==
    LET direct == SelectSeq(KeyOrder,
                    LAMBDA k : k \in DOMAIN md /\ ~(IsTbl(md[k]) \/ IsTbls(md[k])))
        sub == SelectSeq(KeyOrder,
                    LAMBDA k : k \in DOMAIN md /\ (IsTbl(md[k]) \/ IsTbls(md[k])))
        ks == direct \o sub
    IN  [err |-> \E k \in DOMAIN md : md[k] = Chan,
         out |-> [i \in 1..Len(ks) |-> Line(<<ks[i]>>, md[ks[i]], TRUE)]]

----------------------------------------------------------------------------
(* builder: the mutation functions of CustomizeBuildpackTOML *)

\* strings.HasSuffix(s, suffix)
HasSuffix(s, suffix) ==
    /\ Len(suffix) <= Len(s)
    /\ SubSeq(s, Len(s) - Len(suffix) + 1, Len(s)) = suffix

\* mutant: the vendor is looked for at the end of the id without the dash
InVendorListNoDash(depID, vendors) ==
    \E n \in DOMAIN vendors : HasSuffix(depID, vendors[n])

\* the loop over vendors: strings.HasSuffix(depID, fmt.Sprintf("-%s", vendor))
InVendorList(depID, vendors) ==
    \E n \in DOMAIN vendors : HasSuffix(depID, <<"-">> \o vendors[n])

\* the function RemoveDependenciesUnlessInVendorList(vendors) returns,
\* applied to toml
RemoveDependenciesUnlessInVendorList(vendors, toml) ==
    IF "metadata" \notin DOMAIN toml THEN toml
    ELSE IF ~IsTbl(toml["metadata"]) THEN toml
    ELSE
    LET metadata == toml["metadata"].tbl IN
    IF "dependencies" \notin DOMAIN metadata THEN toml
    ELSE IF ~IsTbls(metadata["dependencies"]) THEN toml
    ELSE
    LET dependencies == metadata["dependencies"].tbls
        newDeps == SelectSeq(dependencies,
                     LAMBDA dep : /\ "id" \in DOMAIN dep
                                  /\ IsStr(dep["id"])
                                  /\ InVendorList(dep["id"].str, vendors))
    IN  SetKey(toml, "metadata", Tbl(SetKey(metadata, "dependencies", Tbls(newDeps))))

\* the function UpdateBuildpackDetails(jvmVendor, version) returns, applied
\* to toml
UpdateBuildpackDetails(jvmVendor, version, toml) ==
    IF "buildpack" \notin DOMAIN toml THEN toml
    ELSE IF ~IsTbl(toml["buildpack"]) THEN toml
    ELSE
    LET metadata == toml["buildpack"].tbl
        new == [description |-> Str(jvmVendor.Description),
                homepage |-> Str(jvmVendor.Homepage),
                id |-> Str(jvmVendor.BuildpackID),
                name |-> Str(jvmVendor.Name),
                version |-> Str(version)]
    IN  SetKey(toml, "buildpack",
               Tbl([k \in DOMAIN metadata \cup DOMAIN new |->
                      IF k \in DOMAIN new THEN new[k] ELSE metadata[k]]))

\* mutant: default is set on every entry that has a name
ConfigureWhateverName(config, newConfigs) ==
    IF "name" \in DOMAIN config /\ DOMAIN newConfigs # {}
    THEN SetKey(config, "default", newConfigs[CHOOSE k \in DOMAIN newConfigs : TRUE])
    ELSE config

\* the two loops of UpdateBuildpackConfiguration as they act on one entry:
\* if config["name"] == key { config["default"] = value }
Configure(config, newConfigs) ==
    IF /\ "name" \in DOMAIN config
       /\ IsStr(config["name"])
       /\ config["name"].str \in DOMAIN newConfigs
    THEN SetKey(config, "default", newConfigs[config["name"].str])
    ELSE config

\* the function UpdateBuildpackConfiguration(newConfigs) returns, applied to
\* toml
UpdateBuildpackConfiguration(newConfigs, toml) ==
    IF "metadata" \notin DOMAIN toml THEN toml
    ELSE IF ~IsTbl(toml["metadata"]) THEN toml
    ELSE
    LET metadata == toml["metadata"].tbl IN
    IF "configurations" \notin DOMAIN metadata THEN toml
    ELSE IF ~IsTbls(metadata["configurations"]) THEN toml
    ELSE
    LET configurations == metadata["configurations"].tbls
        updated == [i \in DOMAIN configurations |-> Configure(configurations[i], newConfigs)]
    IN  SetKey(toml, "metadata", Tbl(SetKey(metadata, "configurations", Tbls(updated))))

----------------------------------------------------------------------------
(* carton/package_dependency.go: updateByKey *)

\* strings.HasPrefix(s, prefix)
StringsHasPrefix(s, prefix) ==
    /\ Len(prefix) <= Len(s)
    /\ SubSeq(s, 1, Len(prefix)) = prefix

RECURSIVE SplitOn(_, _, _)
\* strings.Split(s, sep) for a one-byte sep: acc is the piece being read
SplitOn(s, sep, acc) ==
    IF s = <<>> THEN <<acc>>
    ELSE IF s[1] = sep THEN <<acc>> \o SplitOn(Tail(s), sep, <<>>)
    ELSE SplitOn(Tail(s), sep, Append(acc, s[1]))

\* fmt.Sprintf("docker://%s", id)
DockerURI(id) == <<"docker", ":", "//">> \o id

\* strings.HasPrefix(uri, fmt.Sprintf("docker://%s", id))
References(uri, id) == StringsHasPrefix(uri, DockerURI(id))

\* the body of the loop of updateByKey on one element of the array
updateEntry(bpw, id, version) ==
    IF ~IsTbl(bpw) THEN bpw
    ELSE IF "uri" \notin DOMAIN bpw.tbl THEN bpw
    ELSE IF ~IsStr(bpw.tbl["uri"]) THEN bpw
    ELSE
    LET uri == bpw.tbl["uri"].str IN
    IF References(uri, id)
    THEN LET parts == SplitOn(uri, ":", <<>>) IN
         Tbl(SetKey(bpw.tbl, "uri", Str(parts[1] \o <<":">> \o parts[2] \o <<":">> \o version)))
    ELSE bpw

\* the function updateByKey(key, id, version) returns, applied to md
updateByKey(key, id, version, md) ==
    IF key \notin DOMAIN md THEN md
    ELSE IF ~IsArr(md[key]) THEN md
    ELSE LET values == md[key].arr IN
         SetKey(md, key, Arr([i \in DOMAIN values |-> updateEntry(values[i], id, version)]))

----------------------------------------------------------------------------
(* mutation functions func(md map[string]interface{}) *)

FnDetails(jvmVendor, version) ==
    [kind |-> "details", key |-> "", src |-> "",
     val |-> [vendor |-> jvmVendor, version |-> version]]
FnVendors(vendors) ==
    [kind |-> "vendors", key |-> "", src |-> "", val |-> [list |-> vendors]]
FnConfigure(newConfigs) ==
    [kind |-> "configure", key |-> "", src |-> "", val |-> [map |-> newConfigs]]

FnUpdateByKey(key, id, version) ==
    [kind |-> "updateByKey", key |-> key, src |-> "", val |-> [id |-> id, version |-> version]]

FnSet(k, v) == [kind |-> "set", key |-> k, src |-> "", val |-> v]
FnDelete(k) == [kind |-> "delete", key |-> k, src |-> "", val |-> NoValue]
FnCopy(from, to) == [kind |-> "copy", key |-> to, src |-> from, val |-> NoValue]

\* f(md)
Apply(f, md) ==
    CASE f.kind = "set" ->
           [k \in DOMAIN md \cup {f.key} |-> IF k = f.key THEN f.val ELSE md[k]]
      [] f.kind = "delete" ->
           [k \in DOMAIN md \ {f.key} |-> md[k]]
      [] f.kind = "copy" ->
           IF f.src \in DOMAIN md
           THEN [k \in DOMAIN md \cup {f.key} |-> IF k = f.key THEN md[f.src] ELSE md[k]]
           ELSE md
      [] f.kind = "details" -> UpdateBuildpackDetails(f.val.vendor, f.val.version, md)
      [] f.kind = "vendors" -> RemoveDependenciesUnlessInVendorList(f.val.list, md)
      [] f.kind = "configure" -> UpdateBuildpackConfiguration(f.val.map, md)
      [] f.kind = "updateByKey" -> updateByKey(f.key, f.val.id, f.val.version, md)

\* fs[1], ..., fs[n] applied in this order to md
RECURSIVE Composed(_, _, _)
Composed(fs, n, md) == IF n = 0 THEN md ELSE Apply(fs[n], Composed(fs, n - 1, md))

----------------------------------------------------------------------------
(* internal/toml.go *)

Io(o, data) == [op |-> o, data |-> data]

Outcome(c, e, i, k) == [file |-> c, err |-> e, io |-> i, calls |-> k]

\* os.WriteFile(cfgPath, data, mode): "write" fails opening the file and
\* leaves it alone, "truncated" fails after the file was truncated
WriteFile(c, data, fault) ==
    IF fault = "write" THEN c
    ELSE IF fault = "truncated" THEN <<>>
    ELSE data

\* mutant: the file is written before the encoder's error is looked at
SaveBeforeErrorCheck(c, comments, e, loaded, called, fault) ==
    LET data == Concat(comments, e.out) IN
    Outcome(WriteFile(c, data, fault),
            IF e.err THEN "encode"
            ELSE IF fault \in {"write", "truncated"} THEN "write" ELSE "",
            Append(loaded, Io("write", data)), called)

\* utils.Marshal gave e; the tail of UpdateTOMLFile: prepend the comments
\* and write the file
Save(c, comments, e, loaded, called, fault) ==
    IF e.err THEN Outcome(c, "encode", loaded, called)
    ELSE
    LET data == Concat(comments, e.out) IN
    Outcome(WriteFile(c, data, fault),
            IF fault \in {"write", "truncated"} THEN "write" ELSE "",
            Append(loaded, Io("write", data)), called)

UpdateTOMLFile(c, f, fault) ==
    IF fault = "stat" THEN Outcome(c, "stat", <<Io("stat", <<>>)>>, <<>>)
    ELSE IF fault = "read"
    THEN Outcome(c, "read", <<Io("stat", <<>>), Io("read", <<>>)>>, <<>>)
    ELSE
    LET loaded == <<Io("stat", <<>>), Io("read", c)>>
        d == Unmarshal(c)
    IN  IF d.err THEN Outcome(c, "decode", loaded, <<>>)
        ELSE Save(c, LeadingComments(c), Marshal(Apply(f, d.md)), loaded,
                  <<[fn |-> f, saw |-> d.md, left |-> Apply(f, d.md)]>>, fault)

\* mutant: the loop goes on after a pass failed and returns the first error
RECURSIVE MultiUpdateKeepsGoing(_, _, _, _)
MultiUpdateKeepsGoing(c, fs, i, fault) ==
    IF i > Len(fs) THEN Outcome(c, "", <<>>, <<>>)
    ELSE
    LET r == UpdateTOMLFile(c, fs[i], IF fault.at = i THEN fault.kind ELSE "none")
        rest == MultiUpdateKeepsGoing(r.file, fs, i + 1, fault)
    IN  Outcome(rest.file, IF r.err # "" THEN r.err ELSE rest.err,
                r.io \o rest.io, r.calls \o rest.calls)

\* mutant: one pass for the batch: the file is loaded once, the functions
\* are applied to the one document, and the file is written once
MultiUpdateInOnePass(c, fs, i, fault) ==
    LET loaded == <<Io("stat", <<>>), Io("read", c)>>
        d == Unmarshal(c)
        called == [j \in 1..Len(fs) |->
                     [fn |-> fs[j], saw |-> Composed(fs, j - 1, d.md),
                      left |-> Composed(fs, j, d.md)]]
    IN  IF d.err THEN Outcome(c, "decode", loaded, <<>>)
        ELSE Save(c, LeadingComments(c), Marshal(Composed(fs, Len(fs), d.md)),
                  loaded, called, "none")

\* the loop of MultiUpdateTOMLFILE from fns[i] on; fault.kind strikes the
\* pass of fns[fault.at]
RECURSIVE MultiUpdateTOMLFILE(_, _, _, _)
MultiUpdateTOMLFILE(c, fs, i, fault) ==
    IF i > Len(fs) THEN Outcome(c, "", <<>>, <<>>)
    ELSE
    LET r == UpdateTOMLFile(c, fs[i], IF fault.at = i THEN fault.kind ELSE "none")
    IN  IF r.err # "" THEN r
        ELSE LET rest == MultiUpdateTOMLFILE(r.file, fs, i + 1, fault)
             IN  Outcome(rest.file, rest.err, r.io \o rest.io, r.calls \o rest.calls)

----------------------------------------------------------------------------
(* regexp: a pattern is a sequence of atoms: "^" (first) and "$" (last) are
   the anchors, "\\d" matches one digit token, "[" is an unclosed bracket
   and every other atom matches the token equal to it *)

Digits == {"1", "2", "3"}

\* regexp.Compile(p) returns an error
CompileFails(p) == \E i \in DOMAIN p : p[i] = "["

AnchoredStart(p) == p # <<>> /\ p[1] = "^"
AnchoredEnd(p) == p # <<>> /\ p[Len(p)] = "$"

PatternCore(p) ==
    SubSeq(p, IF AnchoredStart(p) THEN 2 ELSE 1,
              IF AnchoredEnd(p) THEN Len(p) - 1 ELSE Len(p))

AtomMatches(a, t) == IF a = "\\d" THEN t \in Digits ELSE a = t

\* the pattern matches the tokens of s that start at position i
MatchAt(p, s, i) ==
    LET core == PatternCore(p) IN
    /\ i + Len(core) - 1 <= Len(s)
    /\ \A j \in 1..Len(core) : AtomMatches(core[j], s[i + j - 1])
    /\ AnchoredStart(p) => i = 1
    /\ AnchoredEnd(p) => i + Len(core) - 1 = Len(s)

\* mutant: the pattern has to match the whole of s
MatchWhole(p, s) == MatchAt(p, s, 1) /\ Len(PatternCore(p)) = Len(s)

\* (*Regexp).MatchString(s)
MatchString(p, s) == \E i \in 1..(Len(s) + 1) : MatchAt(p, s, i)

\* the scan of ReplaceAllString from position i of s on: leftmost matches,
\* not overlapping; an empty match is followed by the token it stands before
RECURSIVE ReplaceFrom(_, _, _, _)
ReplaceFrom(p, s, repl, i) ==
    IF i > Len(s) THEN (IF MatchAt(p, s, i) THEN repl ELSE <<>>)
    ELSE IF MatchAt(p, s, i)
         THEN IF PatternCore(p) = <<>>
              THEN repl \o <<s[i]>> \o ReplaceFrom(p, s, repl, i + 1)
              ELSE repl \o ReplaceFrom(p, s, repl, i + Len(PatternCore(p)))
         ELSE <<s[i]>> \o ReplaceFrom(p, s, repl, i + 1)

\* (*Regexp).Expand on the replacement template: "$1" names a capture
\* group, which no pattern here has, and expands to nothing
Expand(repl) == SelectSeq(repl, LAMBDA t : t # "$1")

\* (*Regexp).ReplaceAllString(s, repl): repl is a template
ReplaceAllString(p, s, repl) == ReplaceFrom(p, s, Expand(repl), 1)

----------------------------------------------------------------------------
(* carton.BuildModuleDependency *)

defaultArch == <<"amd64">>

\* purlArchExp.FindStringSubmatch(purl) for `arch=(.*)`: the capture runs
\* from the first "arch=" to the end of the string
archFromPURL(purl) ==
    IF \E i \in DOMAIN purl : purl[i] = "arch="
    THEN LET i == CHOOSE i \in DOMAIN purl :
                    /\ purl[i] = "arch="
                    /\ \A j \in 1..(i - 1) : purl[j] # "arch="
         IN  SubSeq(purl, i + 1, Len(purl))
    ELSE defaultArch

\* the loop over dep["purls"] from entry i on
RECURSIVE archFromPURLs(_, _)
archFromPURLs(p, i) ==
    IF i > Len(p) THEN defaultArch
    ELSE IF IsStr(p[i]) /\ archFromPURL(p[i].str) # <<>>
         THEN archFromPURL(p[i].str)
         ELSE archFromPURLs(p, i + 1)

dependencyArch(dep) ==
    IF "arch" \in DOMAIN dep /\ IsStr(dep["arch"]) THEN dep["arch"].str
    ELSE IF "purl" \in DOMAIN dep /\ IsStr(dep["purl"]) THEN archFromPURL(dep["purl"].str)
    ELSE IF "purls" \in DOMAIN dep /\ IsArr(dep["purls"]) THEN archFromPURLs(dep["purls"].arr, 1)
    ELSE defaultArch

\* mutant: the new scheme's checksum is written without its prefix
updateChecksumUnprefixed(dep, sha256) ==
    IF "sha256" \in DOMAIN dep
    THEN [dep |-> SetKey(dep, "sha256", Str(sha256)), newFormat |-> FALSE]
    ELSE IF "checksum" \in DOMAIN dep
    THEN [dep |-> SetKey(dep, "checksum", Str(sha256)), newFormat |-> TRUE]
    ELSE [dep |-> dep, newFormat |-> FALSE]

updateChecksum(dep, sha256) ==
    IF "sha256" \in DOMAIN dep
    THEN [dep |-> SetKey(dep, "sha256", Str(sha256)), newFormat |-> FALSE]
    ELSE IF "checksum" \in DOMAIN dep
    THEN [dep |-> SetKey(dep, "checksum", Str(<<"sha256:">> \o sha256)), newFormat |-> TRUE]
    ELSE [dep |-> dep, newFormat |-> FALSE]

\* mutant: the source checksum always goes to the legacy key
updateSourceChecksumLegacy(dep, sourceSHA256, newFormat) ==
    IF sourceSHA256 = <<>> THEN dep
    ELSE SetKey(dep, "source-sha256", Str(sourceSHA256))

updateSourceChecksum(dep, sourceSHA256, newFormat) ==
    IF sourceSHA256 = <<>> THEN dep
    ELSE IF newFormat
    THEN SetKey(dep, "source-checksum", Str(<<"sha256:">> \o sourceSHA256))
    ELSE SetKey(dep, "source-sha256", Str(sourceSHA256))

\* every string entry of a []interface{} run through ReplaceAllString
ReplaceEntries(a, p, repl) ==
    [i \in 1..Len(a) |->
        IF IsStr(a[i]) THEN Str(ReplaceAllString(p, a[i].str, repl)) ELSE a[i]]

updatePURL(dep, purlExp, newPURL) ==
    IF "purl" \in DOMAIN dep /\ IsStr(dep["purl"])
    THEN SetKey(dep, "purl", Str(ReplaceAllString(purlExp, dep["purl"].str, newPURL)))
    ELSE IF "purls" \in DOMAIN dep /\ IsArr(dep["purls"])
    THEN SetKey(dep, "purls", Arr(ReplaceEntries(dep["purls"].arr, purlExp, newPURL)))
    ELSE dep

\* mutant: a purl that is no string ends the optional rewrites of the record
updateCPEsUnlessBadPURL(dep, cpeExp, newCPE) ==
    IF "purl" \in DOMAIN dep /\ ~IsStr(dep["purl"]) THEN dep
    ELSE IF "cpes" \in DOMAIN dep /\ IsArr(dep["cpes"])
    THEN SetKey(dep, "cpes", Arr(ReplaceEntries(dep["cpes"].arr, cpeExp, newCPE)))
    ELSE dep

updateCPEs(dep, cpeExp, newCPE) ==
    IF "cpes" \in DOMAIN dep /\ IsArr(dep["cpes"])
    THEN SetKey(dep, "cpes", Arr(ReplaceEntries(dep["cpes"].arr, cpeExp, newCPE)))
    ELSE dep

\* internal.GetEolDate(b.EolID, b.Version): an error, no date, or a date
EolOutcomes ==
    { [err |-> TRUE, date |-> <<>>],
      [err |-> FALSE, date |-> <<>>],
      [err |-> FALSE, date |-> <<"2030-01-01">>] }

\* mutant: the version of the record is not held against the pattern
SelectedWhateverVersion(dep, bb) ==
    /\ "id" \in DOMAIN dep
    /\ IsStr(dep["id"])
    /\ dep["id"].str = bb.ID
    /\ dependencyArch(dep) = bb.Arch
    /\ "version" \in DOMAIN dep
    /\ IsStr(dep["version"])

\* mutant: the version of the record is not looked at
SelectedByIdAndArch(dep, bb) ==
    /\ "id" \in DOMAIN dep
    /\ IsStr(dep["id"])
    /\ dep["id"].str = bb.ID
    /\ dependencyArch(dep) = bb.Arch

\* the guards of the loop body: dep is a record Update rewrites
Selected(dep, bb) ==
    /\ "id" \in DOMAIN dep
    /\ IsStr(dep["id"])
    /\ dep["id"].str = bb.ID
    /\ dependencyArch(dep) = bb.Arch
    /\ "version" \in DOMAIN dep
    /\ IsStr(dep["version"])
    /\ MatchString(bb.VersionPattern, dep["version"].str)

\* mutant: source is set whether or not a new source is supplied
RewriteAlwaysSource(dep, bb, eol) ==
    LET d1 == SetKey(SetKey(dep, "version", Str(bb.Version)), "uri", Str(bb.URI))
        cs == updateChecksum(d1, bb.SHA256)
        d2 == updateSourceChecksum(cs.dep, bb.SourceSHA256, cs.newFormat)
        d3 == SetKey(d2, "source", Str(bb.Source))
        d4 == updatePURL(d3, bb.PURLPattern, bb.PURL)
        d5 == updateCPEs(d4, bb.CPEPattern, bb.CPE)
    IN  IF bb.EolID = <<>> THEN [dep |-> d5, err |-> FALSE]
        ELSE IF eol.err THEN [dep |-> d5, err |-> TRUE]
        ELSE IF eol.date # <<>>
        THEN [dep |-> SetKey(d5, IF cs.newFormat THEN "eol-date" ELSE "deprecation_date",
                             Str(eol.date)),
              err |-> FALSE]
        ELSE [dep |-> d5, err |-> FALSE]

\* the body run for a selected record; eol is what GetEolDate returns
Rewrite(dep, bb, eol) ==
    LET d1 == SetKey(SetKey(dep, "version", Str(bb.Version)), "uri", Str(bb.URI))
        cs == updateChecksum(d1, bb.SHA256)
        d2 == updateSourceChecksum(cs.dep, bb.SourceSHA256, cs.newFormat)
        d3 == IF bb.Source # <<>> THEN SetKey(d2, "source", Str(bb.Source)) ELSE d2
        d4 == updatePURL(d3, bb.PURLPattern, bb.PURL)
        d5 == updateCPEs(d4, bb.CPEPattern, bb.CPE)
    IN  IF bb.EolID = <<>> THEN [dep |-> d5, err |-> FALSE]
        ELSE IF eol.err THEN [dep |-> d5, err |-> TRUE]
        ELSE IF eol.date # <<>>
        THEN [dep |-> SetKey(d5, IF cs.newFormat THEN "eol-date" ELSE "deprecation_date",
                             Str(eol.date)),
              err |-> FALSE]
        ELSE [dep |-> d5, err |-> FALSE]

\* for _, dep := range dependencies, from record i on; eols[i] is what the
\* lookup returns if it is made for record i
RECURSIVE UpdateLoop(_, _, _, _)
UpdateLoop(deps, i, bb, eols) ==
    IF i > Len(deps) THEN [deps |-> deps, err |-> FALSE, matched |-> {}]
    ELSE IF Selected(deps[i], bb)
    THEN LET r == Rewrite(deps[i], bb, eols[i])
             ds == [deps EXCEPT ![i] = r.dep]
         IN  IF r.err THEN [deps |-> ds, err |-> TRUE, matched |-> {i}]
             ELSE LET rest == UpdateLoop(ds, i + 1, bb, eols)
                  IN  [rest EXCEPT !.matched = @ \cup {i}]
    ELSE UpdateLoop(deps, i + 1, bb, eols)

UpdateOutcome(c, e, i, m) == [file |-> c, err |-> e, io |-> i, matched |-> m]

\* metadata.dependencies of the decoded document, or the error met on the way
Dependencies(md) ==
    IF "metadata" \notin DOMAIN md THEN [err |-> "metadata not found", deps |-> <<>>]
    ELSE IF ~IsTbl(md["metadata"]) THEN [err |-> "metadata cast", deps |-> <<>>]
    ELSE IF "dependencies" \notin DOMAIN md["metadata"].tbl
    THEN [err |-> "dependencies not found", deps |-> <<>>]
    ELSE IF ~IsTbls(md["metadata"].tbl["dependencies"])
    THEN [err |-> "dependencies cast", deps |-> <<>>]
    ELSE [err |-> "", deps |-> md["metadata"].tbl["dependencies"].tbls]

\* md with metadata.dependencies as the loop left it
WithDependencies(md, deps) ==
    SetKey(md, "metadata", Tbl(SetKey(md["metadata"].tbl, "dependencies", Tbls(deps))))

\* mutant: no return after the failed lookup is reported
FinishAfterFailedLookup(c, comments, md, r, loaded, fault) ==
    LET data == Concat(comments, Marshal(WithDependencies(md, r.deps)).out) IN
    UpdateOutcome(WriteFile(c, data, fault), IF r.err THEN "eol" ELSE "",
                  Append(loaded, Io("write", data)), r.matched)

\* the loop ended with r; the tail of Update: return on a failed lookup,
\* else encode, prepend the comments and write the file
Finish(c, comments, md, r, loaded, fault) ==
    IF r.err THEN UpdateOutcome(c, "eol", loaded, r.matched)
    ELSE
    LET e == Marshal(WithDependencies(md, r.deps)) IN
    IF e.err THEN UpdateOutcome(c, "encode", loaded, r.matched)
    ELSE
    LET data == Concat(comments, e.out) IN
    UpdateOutcome(WriteFile(c, data, fault),
                  IF fault \in {"write", "truncated"} THEN "write" ELSE "",
                  Append(loaded, Io("write", data)), r.matched)

\* BuildModuleDependency.Update
Update(c, bb, eols, fault) ==
    IF CompileFails(bb.VersionPattern) THEN UpdateOutcome(c, "version regex", <<>>, {})
    ELSE IF CompileFails(bb.CPEPattern) THEN UpdateOutcome(c, "cpe regex", <<>>, {})
    ELSE IF CompileFails(bb.PURLPattern) THEN UpdateOutcome(c, "purl regex", <<>>, {})
    ELSE IF fault = "read" THEN UpdateOutcome(c, "read", <<Io("read", <<>>)>>, {})
    ELSE
    LET loaded == <<Io("read", c)>>
        d == Unmarshal(c)
        found == Dependencies(d.md)
    IN  IF d.err THEN UpdateOutcome(c, "decode", loaded, {})
        ELSE IF found.err # "" THEN UpdateOutcome(c, found.err, loaded, {})
        ELSE Finish(c, LeadingComments(c), d.md,
                    UpdateLoop(found.deps, 1, bb, eols), loaded, fault)

----------------------------------------------------------------------------
(* carton/buildmodule_dependency.go: the earlier BuildModuleDependency.Update *)

\* depArch: the capture of `arch=(.*)` in a string purl, amd64 when there is
\* none or it is empty
EarlierArch(dep) ==
    LET purlArch ==
          IF /\ "purl" \in DOMAIN dep
             /\ IsStr(dep["purl"])
             /\ \E i \in DOMAIN dep["purl"].str : dep["purl"].str[i] = "arch="
          THEN LET purl == dep["purl"].str
                   i == CHOOSE i \in DOMAIN purl :
                          /\ purl[i] = "arch="
                          /\ \A j \in 1..(i - 1) : purl[j] # "arch="
               IN  SubSeq(purl, i + 1, Len(purl))
          ELSE <<>>
    IN  IF purlArch = <<>> THEN <<"amd64">> ELSE purlArch

\* the guards of the earlier loop body
EarlierSelected(dep, bb) ==
    /\ "id" \in DOMAIN dep
    /\ IsStr(dep["id"])
    /\ dep["id"].str = bb.ID
    /\ EarlierArch(dep) = bb.Arch
    /\ "version" \in DOMAIN dep
    /\ IsStr(dep["version"])
    /\ MatchString(bb.VersionPattern, dep["version"].str)

\* the earlier loop body run for a selected record
EarlierRewrite(dep, bb, eol) ==
    LET d1 == SetKey(SetKey(dep, "version", Str(bb.Version)), "uri", Str(bb.URI))
        d2 == SetKey(d1, "sha256", Str(bb.SHA256))
        d3 == IF bb.SourceSHA256 # <<>> THEN SetKey(d2, "source-sha256", Str(bb.SourceSHA256))
              ELSE d2
        d4 == IF bb.Source # <<>> THEN SetKey(d3, "source", Str(bb.Source)) ELSE d3
        d5 == IF "purl" \in DOMAIN d4 /\ IsStr(d4["purl"])
              THEN SetKey(d4, "purl", Str(ReplaceAllString(bb.PURLPattern, d4["purl"].str, bb.PURL)))
              ELSE d4
        d6 == IF "cpes" \in DOMAIN d5 /\ IsArr(d5["cpes"])
              THEN SetKey(d5, "cpes", Arr(ReplaceEntries(d5["cpes"].arr, bb.CPEPattern, bb.CPE)))
              ELSE d5
    IN  IF bb.EolID = <<>> THEN [dep |-> d6, err |-> FALSE]
        ELSE IF eol.err THEN [dep |-> d6, err |-> TRUE]
        ELSE IF eol.date # <<>>
        THEN [dep |-> SetKey(d6, "deprecation_date", Str(eol.date)), err |-> FALSE]
        ELSE [dep |-> d6, err |-> FALSE]

RECURSIVE EarlierLoop(_, _, _, _)
EarlierLoop(deps, i, bb, eols) ==
    IF i > Len(deps) THEN [deps |-> deps, err |-> FALSE, matched |-> {}]
    ELSE IF EarlierSelected(deps[i], bb)
    THEN LET r == EarlierRewrite(deps[i], bb, eols[i])
             ds == [deps EXCEPT ![i] = r.dep]
         IN  IF r.err THEN [deps |-> ds, err |-> TRUE, matched |-> {i}]
             ELSE LET rest == EarlierLoop(ds, i + 1, bb, eols)
                  IN  [rest EXCEPT !.matched = @ \cup {i}]
    ELSE EarlierLoop(deps, i + 1, bb, eols)

\* the earlier BuildModuleDependency.Update
EarlierUpdate(c, bb, eols, fault) ==
    IF CompileFails(bb.VersionPattern) THEN UpdateOutcome(c, "version regex", <<>>, {})
    ELSE IF CompileFails(bb.CPEPattern) THEN UpdateOutcome(c, "cpe regex", <<>>, {})
    ELSE IF CompileFails(bb.PURLPattern) THEN UpdateOutcome(c, "purl regex", <<>>, {})
    ELSE IF fault = "read" THEN UpdateOutcome(c, "read", <<Io("read", <<>>)>>, {})
    ELSE
    LET loaded == <<Io("read", c)>>
        d == Unmarshal(c)
        found == Dependencies(d.md)
    IN  IF d.err THEN UpdateOutcome(c, "decode", loaded, {})
        ELSE IF found.err # "" THEN UpdateOutcome(c, found.err, loaded, {})
        ELSE Finish(c, LeadingComments(c), d.md,
                    EarlierLoop(found.deps, 1, bb, eols), loaded, fault)

----------------------------------------------------------------------------
(* bounds and inputs of the document patcher *)

MaxLines == 3
MaxFns == 2

S1 == Str(<<"1">>)
S2 == Str(<<"2">>)

InitLines ==
    { Line(<<"#", "lic">>, NoValue, TRUE),     \* # lic
      Line(<<>>, NoValue, TRUE),               \* an empty line
      Line(<<" ">>, NoValue, TRUE),            \* a line of white space
      Line(<<" ", "#">>, NoValue, TRUE),       \* an indented comment
      Line(<<"a">>, S1, TRUE),                 \* a = "1"
      Line(<<"b">>, NoValue, TRUE) }           \* b      (not TOML)

Unterminated(c) ==
    [c EXCEPT ![Len(c)] = Line(c[Len(c)].text, c[Len(c)].val, FALSE)]

InitFiles ==
    LET whole == UNION {[1..n -> InitLines] : n \in 0..MaxLines} IN
    whole \cup {Unterminated(c) : c \in {w \in whole : w # <<>> /\ w[Len(w)].text # <<>>}}

Fns == { FnSet("a", S2), FnSet("b", Chan), FnDelete("a"), FnCopy("a", "b") }

FnSeqs == UNION {[1..n -> Fns] : n \in 0..MaxFns}

FaultKinds == {"none", "stat", "read", "write", "truncated"}

NoFault == [at |-> 0, kind |-> "none"]

\* the ways one pass of a batch of n can fail
Faults(n) == {NoFault} \cup [at : 1..n, kind : FaultKinds \ {"none"}]

NoDependency == [ID |-> <<>>]
NoRecord == EmptyDoc

\* the earlier implementation was not run
NoEarlier == UpdateOutcome(<<>>, "", <<>>, {})

NoBackup == [exists |-> FALSE, content |-> <<>>]
NoCommand == [SingleBuildpack |-> FALSE]
NoBundle == [BuildpackID |-> <<>>]
NoFiles == [k \in {} |-> NoBackup]

\* no packager call was made
NoPackaging ==
    /\ bundle = NoBundle
    /\ built = NoFiles
    /\ execs = <<>>

Idle ==
    /\ backup = NoBackup
    /\ pc = "idle"
    /\ cmd = NoCommand
    /\ iter = 0
    /\ steps = <<>>
    /\ NoPackaging
    /\ earlier = NoEarlier
    /\ before = <<>>
    /\ op = "none"
    /\ fns = <<>>
    /\ b = NoDependency
    /\ err = ""
    /\ io = <<>>
    /\ calls = <<>>
    /\ matched = {}
    /\ record = NoRecord
    /\ arch = <<>>

----------------------------------------------------------------------------
(* the document patcher *)

InitPatch == file \in InitFiles /\ Idle

Returned(name, fs, r) ==
    /\ op' = name
    /\ fns' = fs
    /\ before' = file
    /\ file' = r.file
    /\ err' = r.err
    /\ io' = r.io
    /\ calls' = r.calls

CallUpdateTOMLFile ==
    /\ op = "none"
    /\ \E f \in Fns, fault \in FaultKinds :
         \E r \in {UpdateTOMLFile(file, f, fault)} : Returned("UpdateTOMLFile", <<f>>, r)
    /\ UNCHANGED <<b, matched, record, arch>>
    /\ UNCHANGED builderVars
    /\ UNCHANGED packagerVars
    /\ UNCHANGED earlier

CallMultiUpdateTOMLFILE ==
    /\ op = "none"
    /\ \E fs \in FnSeqs :
         \E fault \in Faults(Len(fs)) :
           \E r \in {MultiUpdateTOMLFILE(file, fs, 1, fault)} :
             Returned("MultiUpdateTOMLFILE", fs, r)
    /\ UNCHANGED <<b, matched, record, arch>>
    /\ UNCHANGED builderVars
    /\ UNCHANGED packagerVars
    /\ UNCHANGED earlier

NextPatch == CallUpdateTOMLFile \/ CallMultiUpdateTOMLFILE

SpecPatch == InitPatch /\ [][NextPatch]_vars

----------------------------------------------------------------------------
(* bounds and inputs of the dependency updater *)

MaxDeps == 2

JRE == <<"jre">>
JDK == <<"jdk">>
V1 == <<"tv-", "1">>
V2 == <<"tv-", "2">>
V3 == <<"tv-", "3">>
XV1 == <<"x", "tv-", "1", "0">>
H1 == <<"h1">>
H3 == <<"h3">>
Arm64 == <<"arm64">>
PurlNoArch == <<"p@", "1">>
PurlArm == <<"p@", "1", "?", "arch=", "arm64">>
PurlAmd == <<"p@", "1", "?", "arch=", "amd64">>
Cpe1 == <<"cpe:", "1", ":*">>
CpeX == <<"cpe:", "x", ":*", ":*">>

Legacy(id, version) ==
    [id |-> Str(id), name |-> Str(<<"n">>), version |-> Str(version),
     uri |-> Str(<<"u1">>), sha256 |-> Str(H1)]

Newer(id, version) ==
    [id |-> Str(id), version |-> Str(version), uri |-> Str(<<"u1">>),
     checksum |-> Str(<<"sha256:">> \o H1)]

Records ==
    { Legacy(JRE, V1),
      [purl |-> Str(PurlArm), cpes |-> Arr(<<Str(Cpe1), Num(7), Str(CpeX)>>),
       source |-> Str(<<"s1">>)] @@ ("source-sha256" :> Str(H1)) @@ Legacy(JRE, V1),
      [purl |-> Str(PurlAmd), cpes |-> Num(1234), checksum |-> Str(<<"sha256:">> \o H1)]
          @@ Legacy(JRE, V2),
      [purls |-> Arr(<<Str(PurlNoArch), Str(PurlArm)>>)] @@ Newer(JRE, V2),
      [arch |-> Str(Arm64), purl |-> Str(PurlAmd)] @@ Newer(JRE, V1),
      Legacy(JDK, V1),
      [version |-> Str(V1), uri |-> Str(<<"u1">>), sha256 |-> Str(H1)],
      [purl |-> Num(1234), purls |-> Arr(<<Str(PurlAmd)>>), cpes |-> Arr(<<Str(Cpe1)>>)]
          @@ Legacy(JRE, V1),
      [id |-> Str(JRE), version |-> Num(1), sha256 |-> Str(H1)],
      [id |-> Str(JRE), uri |-> Str(<<"u1">>), sha256 |-> Str(H1)],
      [id |-> Num(5), version |-> Str(V1), sha256 |-> Str(H1)],
      [id |-> Str(JRE), version |-> Str(XV1), cpes |-> Arr(<<Str(Cpe1)>>)] }

DepLists == UNION {[1..n -> Records] : n \in 0..MaxDeps}

Heads ==
    { <<>>,
      <<Line(<<"#", "lic">>, NoValue, TRUE), Line(<<>>, NoValue, TRUE)>>,
      <<Line(<<>>, NoValue, TRUE), Line(<<"#", "lic">>, NoValue, TRUE)>> }

Bodies ==
    {<<Line(<<"metadata">>, Tbl([dependencies |-> Tbls(ds)]), TRUE)>> : ds \in DepLists}
    \cup
    { <<Line(<<"a">>, S1, TRUE)>>,
      <<Line(<<"metadata">>, S1, TRUE)>>,
      <<Line(<<"metadata">>, Tbl([name |-> S1]), TRUE)>>,
      <<Line(<<"metadata">>, Tbl([dependencies |-> Arr(<<>>)]), TRUE)>>,
      <<Line(<<"metadata">>, NoValue, TRUE)>> }

\* every head on the bodies of one record
HeadedFiles ==
    {h \o <<Line(<<"metadata">>, Tbl([dependencies |-> Tbls(<<r>>)]), TRUE)>> :
        h \in Heads, r \in Records}

DepFiles == Bodies \cup HeadedFiles

VersionPatterns == {<<"tv-", "\\d">>, <<"tv-", "1">>, <<"^", "tv-", "1", "$">>}

Request(a, vp, full) ==
    [ID |-> JRE, Arch |-> a, SHA256 |-> H3, URI |-> <<"u3">>, Version |-> V3,
     VersionPattern |-> vp,
     CPE |-> <<"cpe:", "3">>, CPEPattern |-> <<"cpe:", "\\d">>,
     PURL |-> <<"p@", "3">>, PURLPattern |-> <<"p@", "\\d">>,
     Source |-> IF full THEN <<"s3">> ELSE <<>>,
     SourceSHA256 |-> IF full THEN <<"sh3">> ELSE <<>>,
     EolID |-> IF full THEN <<"jre">> ELSE <<>>]

Requests ==
    {Request(a, vp, FALSE) : a \in {defaultArch, Arm64}, vp \in VersionPatterns}
    \cup
    {Request(defaultArch, vp, TRUE) : vp \in VersionPatterns}
    \cup
    { Request(Arm64, <<"tv-", "\\d">>, TRUE),
      Request(defaultArch, <<"[">>, FALSE),
      [Request(defaultArch, <<"tv-", "1">>, FALSE) EXCEPT !.CPEPattern = <<"[">>],
      [Request(defaultArch, <<"tv-", "1">>, FALSE) EXCEPT !.PURLPattern = <<"[">>],
      [Request(defaultArch, <<"tv-", "1">>, FALSE) EXCEPT
          !.PURLPattern = <<>>, !.PURL = <<>>, !.CPEPattern = <<>>, !.CPE = <<>>] }
    \cup
    { [Request(a, <<"tv-", "\\d">>, FALSE) EXCEPT
          !.PURLPattern = <<"arch=", "arm64">>, !.PURL = <<"arch=", "x">>,
          !.CPEPattern = <<":*">>, !.CPE = <<":-">>] : a \in {defaultArch, Arm64} }
    \cup
    { [Request(defaultArch, <<"tv-", "1">>, FALSE) EXCEPT !.PURL = <<"p@", "3", "$1">>] }

NoLookups == [i \in 1..MaxDeps |-> [err |-> FALSE, date |-> <<>>]]

\* what GetEolDate returns for each record of c it is called for (the
\* records the loop selects); the file system faults are tried with lookups
\* that find no date
Lookups(bb, fault, c) ==
    IF bb.EolID = <<>> \/ fault # "none" THEN {NoLookups}
    ELSE LET deps == Dependencies(Unmarshal(c).md).deps IN
         {e \in [1..MaxDeps -> EolOutcomes] :
            \A i \in 1..MaxDeps :
               (i > Len(deps) \/ ~Selected(deps[i], bb)) => e[i] = NoLookups[i]}

----------------------------------------------------------------------------
(* the dependency updater *)

InitUpdate == file \in DepFiles /\ Idle

CallUpdate ==
    /\ op = "none"
    /\ \E bb \in Requests, fault \in FaultKinds \ {"stat"} :
         \E eols \in Lookups(bb, fault, file) :
           \E r \in {Update(file, bb, eols, fault)} :
           /\ op' = "Update"
           /\ b' = bb
           /\ before' = file
           /\ file' = r.file
           /\ err' = r.err
           /\ io' = r.io
           /\ matched' = r.matched
    /\ UNCHANGED <<fns, calls, record, arch>>
    /\ UNCHANGED builderVars
    /\ UNCHANGED packagerVars
    /\ UNCHANGED earlier

NextUpdate == CallUpdate

SpecUpdate == InitUpdate /\ [][NextUpdate]_vars

----------------------------------------------------------------------------
(* the patcher and the updater on files with leading lines *)

InitComments == file \in InitFiles \cup HeadedFiles /\ Idle

NextComments == CallUpdateTOMLFile \/ CallUpdate

SpecComments == InitComments /\ [][NextComments]_vars

----------------------------------------------------------------------------
(* dependencyArch on its own *)

MaxPurls == 2

PurlEntries ==
    {Str(PurlNoArch), Str(PurlArm), Str(PurlAmd), Str(<<"p@", "1", "?", "arch=">>), Num(7)}

ArchFields == {EmptyDoc, [arch |-> Str(Arm64)], [arch |-> Num(64)]}

PurlFields == {EmptyDoc} \cup {[purl |-> v] : v \in PurlEntries}

PurlsFields ==
    {EmptyDoc} \cup {[purls |-> Arr(a)] : a \in UNION {[1..n -> PurlEntries] : n \in 0..MaxPurls}}

ArchRecords ==
    {a @@ p @@ ps @@ [id |-> Str(JRE)] : a \in ArchFields, p \in PurlFields, ps \in PurlsFields}

InitArch ==
    /\ file = <<>>
    /\ before = <<>>
    /\ op = "none"
    /\ fns = <<>>
    /\ b = NoDependency
    /\ err = ""
    /\ io = <<>>
    /\ calls = <<>>
    /\ matched = {}
    /\ record \in ArchRecords
    /\ arch = <<>>
    /\ backup = NoBackup
    /\ pc = "idle"
    /\ cmd = NoCommand
    /\ iter = 0
    /\ steps = <<>>
    /\ NoPackaging
    /\ earlier = NoEarlier

CallDependencyArch ==
    /\ op = "none"
    /\ op' = "dependencyArch"
    /\ arch' = dependencyArch(record)
    /\ UNCHANGED <<file, before, fns, b, err, io, calls, matched, record>>
    /\ UNCHANGED builderVars
    /\ UNCHANGED packagerVars
    /\ UNCHANGED earlier

NextArch == CallDependencyArch

SpecArch == InitArch /\ [][NextArch]_vars

----------------------------------------------------------------------------
(* what the claims speak of *)

Patched == op \in {"UpdateTOMLFile", "MultiUpdateTOMLFILE"}

StartsWithHash(l) == l.text # <<>> /\ l.text[1] = "#"

OnlySpaces(l) == l.val = NoValue /\ \A i \in DOMAIN l.text : l.text[i] = " "

\* the number of leading lines of c that each start with # or are blank
LeadingRunLen(c) ==
    CHOOSE n \in 0..Len(c) :
        /\ \A i \in 1..n : StartsWithHash(c[i]) \/ OnlySpaces(c[i])
        /\ n < Len(c) => ~(StartsWithHash(c[n + 1]) \/ OnlySpaces(c[n + 1]))

\* the same, where a blank line counts only below the first line
SavedRunLen(c) ==
    CHOOSE n \in 0..Len(c) :
        /\ \A i \in 1..n : StartsWithHash(c[i]) \/ (i > 1 /\ OnlySpaces(c[i]))
        /\ n < Len(c) => ~(StartsWithHash(c[n + 1]) \/ (n > 0 /\ OnlySpaces(c[n + 1])))

\* the bytes of p are the first bytes of c
IsBytePrefix(p, c) ==
    /\ Len(p) <= Len(c)
    /\ \A i \in 1..Len(p) :
         IF p[i].nl \/ p[i].val # NoValue
         THEN p[i].text = c[i].text /\ p[i].val = c[i].val /\ (p[i].nl => c[i].nl)
         ELSE /\ Len(p[i].text) <= Len(c[i].text)
              /\ SubSeq(c[i].text, 1, Len(p[i].text)) = p[i].text

Writes == SelectSeq(io, LAMBDA x : x.op = "write")
Reads == SelectSeq(io, LAMBDA x : x.op = "read")
Stats == SelectSeq(io, LAMBDA x : x.op = "stat")

\* the records of metadata.dependencies in a file
DepsOf(c) == Dependencies(Unmarshal(c).md).deps

----------------------------------------------------------------------------
(* C1 *)

\* C1 as stated: the file a successful UpdateTOMLFile or Update wrote begins
\* byte for byte with the original file's leading run of lines that each
\* start with # or are blank.
C1_LeadingRunKept ==
    (op \in {"UpdateTOMLFile", "Update"} /\ err = "")
        => IsBytePrefix(SubSeq(before, 1, LeadingRunLen(before)), file)

\* C1 amended: the file a successful UpdateTOMLFile or Update wrote begins
\* byte for byte with the original file's leading run of lines that start
\* with # or, below the first line, are blank; a blank first line ends the
\* run at once.
C1_SavedCommentsKept ==
    (op \in {"UpdateTOMLFile", "Update"} /\ err = "")
        => IsBytePrefix(SubSeq(before, 1, SavedRunLen(before)), file)

C1_Witness ==
    /\ op = "Update"
    /\ err = ""
    /\ matched # {}
    /\ SavedRunLen(before) = 2
    /\ Len(file) > 2
    /\ file # before

----------------------------------------------------------------------------
(* C2 *)

\* C2: after a successful Update every record that does not match (other id,
\* other derived architecture, or a version the pattern does not match) is
\* the same as before, whatever happened to the other records.
C2_OthersUntouched ==
    (op = "Update" /\ err = "") =>
        /\ Len(DepsOf(file)) = Len(DepsOf(before))
        /\ \A i \in DOMAIN DepsOf(before) :
             LET d == DepsOf(before)[i] IN
             (\/ "id" \notin DOMAIN d
              \/ d["id"] # Str(b.ID)
              \/ dependencyArch(d) # b.Arch
              \/ "version" \notin DOMAIN d
              \/ ~IsStr(d["version"])
              \/ ~(\E k \in 1..(Len(d["version"].str) + 1) :
                        MatchAt(b.VersionPattern, d["version"].str, k)))
                => DepsOf(file)[i] = d

\* two records of the target id and architecture, one rewritten, one not
C2_Witness ==
    /\ op = "Update"
    /\ err = ""
    /\ \E i, j \in DOMAIN DepsOf(before) :
         /\ i \in matched
         /\ j \notin matched
         /\ "id" \in DOMAIN DepsOf(before)[j]
         /\ DepsOf(before)[j]["id"] = Str(b.ID)
         /\ dependencyArch(DepsOf(before)[j]) = b.Arch
         /\ DepsOf(file)[i] # DepsOf(before)[i]
         /\ DepsOf(file)[j] = DepsOf(before)[j]

----------------------------------------------------------------------------
(* C3 *)

\* C3: Update rewrites exactly the records whose id is the target ID, whose
\* derived architecture is the target Arch and whose version the pattern
\* matches somewhere (not only as a whole); all of them, not only the first.
C3_RewritesExactlyTheMatches ==
    (op = "Update" /\ err = "") =>
        \A i \in DOMAIN DepsOf(before) :
            LET d == DepsOf(before)[i] IN
            /\ i \in matched <=>
                 /\ "id" \in DOMAIN d
                 /\ d["id"] = Str(b.ID)
                 /\ dependencyArch(d) = b.Arch
                 /\ "version" \in DOMAIN d
                 /\ IsStr(d["version"])
                 /\ \E k \in 1..(Len(d["version"].str) + 1) :
                        MatchAt(b.VersionPattern, d["version"].str, k)
            /\ i \in matched =>
                 /\ DepsOf(file)[i]["version"] = Str(b.Version)
                 /\ DepsOf(file)[i]["uri"] = Str(b.URI)

\* two records rewritten, one of them matched inside its version
C3_Witness ==
    /\ op = "Update"
    /\ err = ""
    /\ Cardinality(matched) = 2
    /\ \E i \in matched : DepsOf(before)[i]["version"] = Str(XV1)
    /\ \A i \in matched : DepsOf(file)[i]["version"] = Str(V3)

----------------------------------------------------------------------------
(* C4 *)

OldSchemeKeys == {"sha256", "source-sha256", "deprecation_date"}
NewSchemeKeys == {"checksum", "source-checksum", "eol-date"}

\* C4: a rewritten record that had checksum and no sha256 gains none of
\* sha256, source-sha256, deprecation_date; one that had sha256 gains none of
\* checksum, source-checksum, eol-date.
C4_SchemesNotMixed ==
    (op = "Update" /\ err = "") =>
        \A i \in matched :
            LET old == DOMAIN DepsOf(before)[i]
                new == DOMAIN DepsOf(file)[i]
            IN  /\ ("checksum" \in old /\ "sha256" \notin old)
                     => (new \cap OldSchemeKeys) \subseteq old
                /\ "sha256" \in old => (new \cap NewSchemeKeys) \subseteq old

\* a record of each scheme rewritten with a source checksum and a date
C4_Witness ==
    /\ op = "Update"
    /\ err = ""
    /\ \E i, j \in matched :
         /\ "sha256" \notin DOMAIN DepsOf(before)[i]
         /\ "source-checksum" \notin DOMAIN DepsOf(before)[i]
         /\ {"checksum", "source-checksum", "eol-date"} \subseteq DOMAIN DepsOf(file)[i]
         /\ "deprecation_date" \notin DOMAIN DepsOf(before)[j]
         /\ {"sha256", "source-sha256", "deprecation_date"} \subseteq DOMAIN DepsOf(file)[j]

----------------------------------------------------------------------------
(* C5 *)

HasArchParam(s) == \E i \in DOMAIN s : s[i] = "arch="

\* what `arch=(.*)` captures in s
Captured(s) ==
    LET i == CHOOSE i \in DOMAIN s : s[i] = "arch=" /\ \A j \in 1..(i - 1) : s[j] # "arch="
    IN  SubSeq(s, i + 1, Len(s))

WellTyped(d) ==
    /\ "arch" \in DOMAIN d => IsStr(d["arch"])
    /\ "purl" \in DOMAIN d => IsStr(d["purl"])
    /\ "purls" \in DOMAIN d => IsArr(d["purls"])

\* the entries of purls that carry an arch parameter
ArchEntries(d) ==
    IF "purls" \in DOMAIN d
    THEN SelectSeq(d["purls"].arr, LAMBDA u : IsStr(u) /\ HasArchParam(u.str))
    ELSE <<>>

\* C5: the derived architecture is the arch field if present; otherwise what
\* arch=(.*) captures in purl; otherwise what it captures in the first entry
\* of purls that has an arch parameter; otherwise amd64.
C5_ArchPrecedence ==
    (op = "dependencyArch" /\ WellTyped(record)) =>
        arch = IF "arch" \in DOMAIN record THEN record["arch"].str
               ELSE IF "purl" \in DOMAIN record /\ HasArchParam(record["purl"].str)
               THEN Captured(record["purl"].str)
               ELSE IF ArchEntries(record) # <<>> THEN Captured(ArchEntries(record)[1].str)
               ELSE defaultArch

----------------------------------------------------------------------------
(* C6 *)

PreWriteErrors == {"stat", "read", "decode", "encode"}

\* C6 as stated: whenever UpdateTOMLFile or MultiUpdateTOMLFILE returns an
\* error, the file holds the content it had before the call.
C6_NoPartialState == (Patched /\ err # "") => file = before

\* C6 amended: a pass of UpdateTOMLFile that returns a stat, read, decode or
\* encode error leaves the file as it found it; so a failed UpdateTOMLFile
\* leaves the content from before the call, and a MultiUpdateTOMLFILE that
\* fails so leaves what the last pass that succeeded wrote (the content from
\* before the call only when the first pass failed).
C6_FailedPassWritesNothing ==
    (Patched /\ err \in PreWriteErrors) =>
        /\ file = IF Writes = <<>> THEN before ELSE Writes[Len(Writes)].data
        /\ op = "UpdateTOMLFile" => file = before
        /\ Len(Writes) = Len(Stats) - 1

\* the second pass of a batch fails to encode after the first was written
C6_Witness ==
    /\ op = "MultiUpdateTOMLFILE"
    /\ err = "encode"
    /\ Len(Writes) = 1
    /\ file # before

----------------------------------------------------------------------------
(* C8 *)

\* C8: a successful MultiUpdateTOMLFILE invokes the functions in the order
\* given, each on the document as the one before it left it (the first on
\* the document loaded at the start), and the document written at the end is
\* the functions composed in that order on the document loaded at the start.
C8_ComposedInOrder ==
    (op = "MultiUpdateTOMLFILE" /\ err = "") =>
        /\ Len(calls) = Len(fns)
        /\ \A i \in DOMAIN calls :
             /\ calls[i].fn = fns[i]
             /\ calls[i].saw = IF i = 1 THEN Unmarshal(before).md ELSE calls[i - 1].left
        /\ fns # <<>> =>
             calls[Len(calls)].left = Composed(fns, Len(fns), Unmarshal(before).md)

----------------------------------------------------------------------------
(* C9 *)

\* C9: a MultiUpdateTOMLFILE that returns an error stopped in the pass that
\* failed: the functions invoked are the first ones of the batch, none after
\* the failed pass, no file call follows it, and the file is as the last
\* pass that succeeded wrote it (or, when the failed step is the write, as
\* that write left it).
C9_StopsAtFirstFailure ==
    (op = "MultiUpdateTOMLFILE" /\ err # "") =>
        LET k == Len(Stats)
            done == IF err = "write" THEN Len(Writes) - 1 ELSE Len(Writes)
            kept == IF done = 0 THEN before ELSE Writes[done].data
        IN  /\ k \in 1..Len(fns)
            /\ done = k - 1
            /\ Len(calls) \in {k - 1, k}
            /\ \A i \in DOMAIN calls : calls[i].fn = fns[i]
            /\ io[Len(io)].op = (IF err \in {"decode", "encode"} THEN "read" ELSE err)
            /\ file = kept \/ (err = "write" /\ file = <<>>)

\* the first pass of a batch of two fails: the second function is not invoked
C9_Witness ==
    /\ op = "MultiUpdateTOMLFILE"
    /\ err # ""
    /\ Len(fns) = 2
    /\ Len(Stats) = 1
    /\ Len(calls) = 1

----------------------------------------------------------------------------
(* C10 *)

\* C10 as stated: a successful batch loads the file once and writes it once.
C10_SinglePass ==
    (op = "MultiUpdateTOMLFILE" /\ err = "") => (Len(Reads) = 1 /\ Len(Writes) = 1)

\* C10 amended: a batch of n functions takes n passes, one per function: each
\* pass stats and reads the file, applies its one function to the document
\* decoded from what it read, and writes the file, so between two functions
\* the file is written and read again; only a batch of one function is a
\* single pass.
C10_OnePassPerFunction ==
    (Patched /\ err = "") =>
        /\ Len(io) = 3 * Len(fns)
        /\ Len(calls) = Len(fns)
        /\ \A i \in 1..Len(fns) :
             /\ io[3 * i - 2].op = "stat"
             /\ io[3 * i - 1].op = "read"
             /\ io[3 * i].op = "write"
             /\ io[3 * i - 1].data = (IF i = 1 THEN before ELSE io[3 * i - 3].data)
             /\ calls[i].saw = Unmarshal(io[3 * i - 1].data).md

C10_Witness ==
    /\ op = "MultiUpdateTOMLFILE"
    /\ err = ""
    /\ Len(fns) = 2
    /\ Len(Writes) = 2
    /\ Writes[1].data # before
    /\ Writes[2].data # Writes[1].data

----------------------------------------------------------------------------
(* C7 *)

CompileErrors == {"version regex", "cpe regex", "purl regex"}

FatalErrors ==
    CompileErrors \cup
    {"metadata not found", "metadata cast", "dependencies not found",
     "dependencies cast", "eol"}

\* C7: when Update reports a pattern that does not compile, a missing or
\* wrongly typed metadata or dependencies block, or a failed end-of-life
\* lookup, it has written nothing and the file is as before, also when
\* records were already rewritten in memory; a pattern error is reported
\* before the file is read.
C7_FatalErrorWritesNothing ==
    (op = "Update" /\ err \in FatalErrors) =>
        /\ file = before
        /\ Writes = <<>>
        /\ err \in CompileErrors => io = <<>>

\* the lookup fails for the second record after the first was rewritten
C7_Witness ==
    /\ op = "Update"
    /\ err = "eol"
    /\ Cardinality(matched) = 2
    /\ file = before

----------------------------------------------------------------------------
(* C11 *)

SourceChecksumKeys == {"source-sha256", "source-checksum"}

\* C11: a rewritten record that had sha256 gets the new value there without
\* prefix, and the supplied source checksum in source-sha256 without prefix;
\* one that had checksum and no sha256 gets `sha256:` and the new value in
\* checksum, and `sha256:` and the supplied source checksum in
\* source-checksum. With no source checksum supplied the record's source
\* checksum fields are as they were.
C11_ChecksumByScheme ==
    (op = "Update" /\ err = "") =>
        \A i \in matched :
            LET old == DepsOf(before)[i]
                new == DepsOf(file)[i]
            IN  /\ "sha256" \in DOMAIN old =>
                     /\ new["sha256"] = Str(b.SHA256)
                     /\ b.SourceSHA256 # <<>> =>
                            /\ "source-sha256" \in DOMAIN new
                            /\ new["source-sha256"] = Str(b.SourceSHA256)
                /\ ("checksum" \in DOMAIN old /\ "sha256" \notin DOMAIN old) =>
                     /\ new["checksum"] = Str(<<"sha256:">> \o b.SHA256)
                     /\ b.SourceSHA256 # <<>> =>
                            /\ "source-checksum" \in DOMAIN new
                            /\ new["source-checksum"] = Str(<<"sha256:">> \o b.SourceSHA256)
                /\ b.SourceSHA256 = <<>> =>
                     \A k \in SourceChecksumKeys :
                        /\ k \in DOMAIN new <=> k \in DOMAIN old
                        /\ k \in DOMAIN old => new[k] = old[k]

\* one call rewrites a record that has only checksum and a record that has
\* both sha256 and checksum, with a source checksum supplied
C11_Witness ==
    /\ op = "Update"
    /\ err = ""
    /\ b.SourceSHA256 # <<>>
    /\ \E i, j \in matched :
         /\ "sha256" \notin DOMAIN DepsOf(before)[i]
         /\ "checksum" \in DOMAIN DepsOf(before)[i]
         /\ DepsOf(file)[i]["checksum"] = Str(<<"sha256:">> \o H3)
         /\ DepsOf(file)[i]["source-checksum"] = Str(<<"sha256:", "sh3">>)
         /\ {"sha256", "checksum"} \subseteq DOMAIN DepsOf(before)[j]
         /\ DepsOf(file)[j]["sha256"] = Str(H3)
         /\ DepsOf(file)[j]["checksum"] = DepsOf(before)[j]["checksum"]
         /\ DepsOf(file)[j]["source-sha256"] = Str(<<"sh3">>)

----------------------------------------------------------------------------
(* C12 *)

\* the keys Update may write on a record
UpdatableKeys ==
    {"version", "uri", "sha256", "checksum", "source", "source-sha256",
     "source-checksum", "purl", "purls", "cpes", "deprecation_date", "eol-date"}

\* C12: a rewritten record has the new version and uri, whether or not it
\* had them; it has the new source when one is supplied and otherwise the
\* source it had, or none; every key outside the updatable ones is present
\* and valued as before, none added, none removed.
C12_OnlyUpdatableKeysChange ==
    (op = "Update" /\ err = "") =>
        \A i \in matched :
            LET old == DepsOf(before)[i]
                new == DepsOf(file)[i]
            IN  /\ {"version", "uri"} \subseteq DOMAIN new
                /\ new["version"] = Str(b.Version)
                /\ new["uri"] = Str(b.URI)
                /\ b.Source # <<>> => ("source" \in DOMAIN new /\ new["source"] = Str(b.Source))
                /\ b.Source = <<>> =>
                     /\ "source" \in DOMAIN new <=> "source" \in DOMAIN old
                     /\ "source" \in DOMAIN old => new["source"] = old["source"]
                /\ DOMAIN new \ UpdatableKeys = DOMAIN old \ UpdatableKeys
                /\ \A k \in DOMAIN old \ UpdatableKeys : new[k] = old[k]

\* a record with a name and a source is rewritten by a request that brings
\* no source
C12_Witness ==
    /\ op = "Update"
    /\ err = ""
    /\ b.Source = <<>>
    /\ \E i \in matched :
         /\ {"name", "source", "uri"} \subseteq DOMAIN DepsOf(before)[i]
         /\ DepsOf(file)[i]["name"] = DepsOf(before)[i]["name"]
         /\ DepsOf(file)[i]["source"] = Str(<<"s1">>)
         /\ DepsOf(before)[i]["uri"] # Str(b.URI)
         /\ DepsOf(file)[i]["uri"] = Str(b.URI)
         /\ DepsOf(file)[i]["version"] = Str(V3)

----------------------------------------------------------------------------
(* C13 *)

\* where in s the pattern matches
MatchStarts(p, s) == {k \in 1..(Len(s) + 1) : MatchAt(p, s, k)}

RECURSIVE Flatten(_)
Flatten(pieces) == IF pieces = <<>> THEN <<>> ELSE Head(pieces) \o Flatten(Tail(pieces))

\* s with every match of the pattern replaced by repl: each token that lies
\* in no match is kept, and repl stands where each match began (the matches
\* of the patterns used here never overlap)
EveryMatchReplaced(p, s, repl) ==
    LET starts == MatchStarts(p, s)
        inMatch(k) == \E j \in starts : j <= k /\ k < j + Len(PatternCore(p))
    IN  Flatten([k \in 1..(Len(s) + 1) |->
                   (IF k \in starts THEN repl ELSE <<>>)
                   \o (IF k <= Len(s) /\ ~inMatch(k) THEN <<s[k]>> ELSE <<>>)])

\* new is old with every string entry rewritten; same length, same order
EntriesRewritten(old, new, p, repl) ==
    /\ IsArr(new)
    /\ Len(new.arr) = Len(old.arr)
    /\ \A n \in DOMAIN old.arr :
         LET e == old.arr[n] IN
         IF IsStr(e)
         THEN /\ new.arr[n] = Str(EveryMatchReplaced(p, e.str, repl))
              /\ MatchStarts(p, e.str) = {} => new.arr[n] = e
         ELSE new.arr[n] = e

\* key k is in both records with one value, or in neither
SameAt(old, new, k) ==
    /\ k \in DOMAIN new <=> k \in DOMAIN old
    /\ k \in DOMAIN old => new[k] = old[k]

\* C13: on a rewritten record every match of PURLPattern is replaced by PURL
\* in purl when it is a string, or else in every string entry of purls, and
\* every match of CPEPattern by CPE in every string entry of cpes; an entry
\* without a match keeps its value, and purls and cpes keep their length and
\* order.
C13_EveryMatchReplaced ==
    (op = "Update" /\ err = "") =>
        \A i \in matched :
            LET old == DepsOf(before)[i]
                new == DepsOf(file)[i]
            IN  /\ IF "purl" \in DOMAIN old /\ IsStr(old["purl"])
                   THEN /\ "purl" \in DOMAIN new
                        /\ new["purl"] = Str(EveryMatchReplaced(b.PURLPattern,
                                                                 old["purl"].str, b.PURL))
                        /\ MatchStarts(b.PURLPattern, old["purl"].str) = {} =>
                              new["purl"] = old["purl"]
                        /\ SameAt(old, new, "purls")
                   ELSE IF "purls" \in DOMAIN old /\ IsArr(old["purls"])
                   THEN /\ "purls" \in DOMAIN new
                        /\ EntriesRewritten(old["purls"], new["purls"], b.PURLPattern, b.PURL)
                   ELSE SameAt(old, new, "purls")
                /\ IF "cpes" \in DOMAIN old /\ IsArr(old["cpes"])
                   THEN /\ "cpes" \in DOMAIN new
                        /\ EntriesRewritten(old["cpes"], new["cpes"], b.CPEPattern, b.CPE)
                   ELSE SameAt(old, new, "cpes")

\* one record: its purl rewritten, a cpe with two matches rewritten at both,
\* a cpe without a match and an entry that is no string kept
C13_Witness ==
    /\ op = "Update"
    /\ err = ""
    /\ b.CPEPattern = <<":*">>
    /\ \E i \in matched :
         /\ {"purl", "cpes"} \subseteq DOMAIN DepsOf(before)[i]
         /\ DepsOf(before)[i]["purl"] = Str(PurlArm)
         /\ DepsOf(file)[i]["purl"] = Str(<<"p@", "1", "?", "arch=", "x">>)
         /\ DepsOf(before)[i]["cpes"] = Arr(<<Str(Cpe1), Num(7), Str(CpeX)>>)
         /\ DepsOf(file)[i]["cpes"] =
               Arr(<<Str(<<"cpe:", "1", ":-">>), Num(7), Str(<<"cpe:", "x", ":-", ":-">>)>>)

\* in one sequence of purls an entry without a match is kept beside an entry
\* that is rewritten
C13_WitnessPurls ==
    /\ op = "Update"
    /\ err = ""
    /\ \E i \in matched :
         /\ "purls" \in DOMAIN DepsOf(before)[i]
         /\ DepsOf(before)[i]["purls"] = Arr(<<Str(PurlNoArch), Str(PurlArm)>>)
         /\ DepsOf(file)[i]["purls"] =
               Arr(<<Str(PurlNoArch), Str(<<"p@", "1", "?", "arch=", "x">>)>>)

----------------------------------------------------------------------------
(* C14 *)

\* something other than a field of a record that can make Update fail
OtherCause ==
    \/ CompileFails(b.VersionPattern)
    \/ CompileFails(b.CPEPattern)
    \/ CompileFails(b.PURLPattern)
    \/ err \in {"read", "write"}
    \/ Unmarshal(before).err
    \/ Dependencies(Unmarshal(before).md).err # ""
    \/ (err = "eol" /\ b.EolID # <<>>)

\* C14: a purl or cpes of the wrong type, or a missing purl, is no error: an
\* Update that fails has another cause. On a rewritten record such a field
\* is as it was, version, uri and the checksum are the new ones, and the
\* other optional field, when well formed, is rewritten; the record so
\* rewritten is in the file.
C14_MalformedFieldsTolerated ==
    op = "Update" =>
        /\ err # "" => OtherCause
        /\ err = "" =>
             \A i \in matched :
                LET old == DepsOf(before)[i]
                    new == DepsOf(file)[i]
                    badPURL == "purl" \notin DOMAIN old \/ ~IsStr(old["purl"])
                    badCPEs == "cpes" \in DOMAIN old /\ ~IsArr(old["cpes"])
                IN  (badPURL \/ badCPEs) =>
                        /\ Len(Writes) = 1
                        /\ badPURL => SameAt(old, new, "purl")
                        /\ badCPEs => SameAt(old, new, "cpes")
                        /\ new["version"] = Str(b.Version)
                        /\ new["uri"] = Str(b.URI)
                        /\ "sha256" \in DOMAIN old => new["sha256"] = Str(b.SHA256)
                        /\ ("cpes" \in DOMAIN old /\ IsArr(old["cpes"])) =>
                              new["cpes"] =
                                Arr(ReplaceEntries(old["cpes"].arr, b.CPEPattern, b.CPE))
                        /\ ~badPURL =>
                              new["purl"] =
                                Str(ReplaceAllString(b.PURLPattern, old["purl"].str, b.PURL))

\* one call rewrites a record whose purl is a number and whose cpes change,
\* and a record whose cpes is a number and whose purl changes
C14_Witness ==
    /\ op = "Update"
    /\ err = ""
    /\ \E i, j \in matched :
         /\ {"purl", "cpes"} \subseteq DOMAIN DepsOf(before)[i]
         /\ DepsOf(before)[i]["purl"] = Num(1234)
         /\ DepsOf(file)[i]["purl"] = Num(1234)
         /\ DepsOf(file)[i]["cpes"] # DepsOf(before)[i]["cpes"]
         /\ DepsOf(file)[i]["sha256"] = Str(H3)
         /\ {"purl", "cpes"} \subseteq DOMAIN DepsOf(before)[j]
         /\ DepsOf(before)[j]["cpes"] = Num(1234)
         /\ DepsOf(file)[j]["cpes"] = Num(1234)
         /\ DepsOf(file)[j]["purl"] # DepsOf(before)[j]["purl"]
         /\ DepsOf(file)[j]["version"] = Str(V3)

----------------------------------------------------------------------------
(* C15 *)

\* the id or the version of record d is missing or is no string
BadCoreField(d) ==
    \/ "id" \notin DOMAIN d
    \/ ~IsStr(d["id"])
    \/ "version" \notin DOMAIN d
    \/ ~IsStr(d["version"])

\* the file was read and holds a sequence of dependency records
DependenciesLoaded ==
    /\ op = "Update"
    /\ err \notin CompileErrors \cup {"read"}
    /\ ~Unmarshal(before).err
    /\ Dependencies(Unmarshal(before).md).err = ""

\* C15 as stated: a record whose id or version is missing or is no string
\* makes Update report an error.
C15_BadCoreFieldIsAnError ==
    (DependenciesLoaded /\ \E i \in DOMAIN DepsOf(before) : BadCoreField(DepsOf(before)[i]))
        => err # ""

\* C15 amended: a record whose id or version is missing or is no string is
\* passed over in silence: an Update that fails has another cause, and after
\* a successful Update the record is not rewritten and is as it was.
C15_BadCoreFieldIsSkipped ==
    op = "Update" =>
        /\ err # "" =>
             \/ err \in CompileErrors \cup {"read", "write"}
             \/ ~DependenciesLoaded
             \/ (err = "eol" /\ b.EolID # <<>>)
        /\ err = "" =>
             \A i \in DOMAIN DepsOf(before) :
                BadCoreField(DepsOf(before)[i]) =>
                    /\ i \notin matched
                    /\ DepsOf(file)[i] = DepsOf(before)[i]

\* a record of the target id whose version is no string is passed over and
\* the record after it is rewritten
C15_Witness ==
    /\ op = "Update"
    /\ err = ""
    /\ Len(DepsOf(before)) = 2
    /\ {"id", "version"} \subseteq DOMAIN DepsOf(before)[1]
    /\ DepsOf(before)[1]["id"] = Str(b.ID)
    /\ ~IsStr(DepsOf(before)[1]["version"])
    /\ DepsOf(file)[1] = DepsOf(before)[1]
    /\ matched = {2}
    /\ DepsOf(file)[2] # DepsOf(before)[2]

----------------------------------------------------------------------------
(* C16 *)

\* the document the call encoded
EncodedBody ==
    IF op = "UpdateTOMLFile" THEN Marshal(calls[1].left).out
    ELSE Marshal(Unmarshal(file).md).out

\* C16: the bytes a successful UpdateTOMLFile or Update writes are the
\* longest run of lines from the start of the file that each start with #
\* or, below the first line, are blank, followed by the encoded document and
\* nothing else: the saved prefix is exactly that run, empty when the first
\* line is blank or no comment, and empty for an empty file.
C16_SavedPrefixIsLongestRun ==
    (op \in {"UpdateTOMLFile", "Update"} /\ err = "") =>
        /\ Len(Writes) = 1
        /\ Writes[1].data = Concat(SubSeq(before, 1, SavedRunLen(before)), EncodedBody)
        /\ (before = <<>> \/ ~StartsWithHash(before[1])) => Writes[1].data = EncodedBody

\* the scan stops at the first line that is neither: a comment below it is
\* not saved
C16_Witness ==
    /\ op = "UpdateTOMLFile"
    /\ err = ""
    /\ Len(before) = 3
    /\ StartsWithHash(before[1])
    /\ before[2].val # NoValue
    /\ StartsWithHash(before[3])
    /\ SavedRunLen(before) = 1
    /\ Len(file) = 2
    /\ file[1] = before[1]
    /\ file[2].val # NoValue

----------------------------------------------------------------------------
(* bounds and inputs of the buildpack.toml customizer *)

MaxVendorDeps == 3
MaxVendors == 2
MaxConfigs == 2

Foo == <<"foo">>
Baz == <<"baz">>
Nope == <<"nope">>

VendorRecords ==
    { [id |-> Str(<<"jdk", "-", "foo">>), version |-> Str(V1)],
      [id |-> Str(<<"jre", "-", "foo">>)],
      [id |-> Str(<<"jdk", "-", "baz">>)],
      [id |-> Str(<<"jdk", "foo">>)],            \* jdkfoo
      [id |-> Str(<<"-", "foo">>)],              \* -foo
      [id |-> Num(5)],
      [version |-> Str(V1)] }

VendorLists == UNION {[1..n -> {Foo, Baz}] : n \in 0..MaxVendors}

ConfigEntries ==
    { [name |-> Str(Foo), default |-> S1],
      [name |-> Str(Baz), default |-> S2],
      [name |-> Str(Foo)],
      [name |-> Num(5), default |-> S1],
      [default |-> S1] }

NewDefault(k) == Str(<<"new", "-">> \o k)

NewConfigs == {[k \in K |-> NewDefault(k)] : K \in SUBSET {Foo, Baz, Nope}}

TwoConfigs == Tbls(<<[name |-> Str(Foo), default |-> S1],
                     [name |-> Str(Baz), default |-> S2]>>)

TwoDeps == Tbls(<<[id |-> Str(<<"jdk", "-", "foo">>)],
                  [id |-> Str(<<"jdk", "-", "baz">>)]>>)

\* the values of the top-level key metadata
Metadatas ==
    {Tbl([dependencies |-> Tbls(deps), configurations |-> TwoConfigs]) :
        deps \in UNION {[1..n -> VendorRecords] : n \in 0..MaxVendorDeps}}
    \cup
    {Tbl([dependencies |-> TwoDeps, configurations |-> Tbls(cfgs)]) :
        cfgs \in UNION {[1..n -> ConfigEntries] : n \in 0..MaxConfigs}}
    \cup
    { S1,                                                     \* not a table
      Tbl([a |-> S1]),                                        \* neither key
      Tbl([dependencies |-> Arr(<<S1>>), configurations |-> Arr(<<S1>>)]) }

CustomizeFiles ==
    {<<Line(<<"#", "lic">>, NoValue, TRUE), Line(<<"a">>, S1, TRUE),
       Line(<<"metadata">>, m, TRUE)>> : m \in Metadatas}
    \cup {<<Line(<<"a">>, S1, TRUE)>>}

CustomizeFns ==
    {FnVendors(vendors) : vendors \in VendorLists}
    \cup {FnConfigure(newConfigs) : newConfigs \in NewConfigs}

CustomizeFaults == {"none", "read", "write"}

----------------------------------------------------------------------------
(* the buildpack.toml customizer *)

InitCustomize == file \in CustomizeFiles /\ Idle

\* one function of CustomizeBuildpackTOML run through the document patcher
CallCustomize ==
    /\ op = "none"
    /\ \E f \in CustomizeFns, fault \in CustomizeFaults :
         \E r \in {UpdateTOMLFile(file, f, fault)} : Returned("UpdateTOMLFile", <<f>>, r)
    /\ UNCHANGED <<b, matched, record, arch>>
    /\ UNCHANGED builderVars
    /\ UNCHANGED packagerVars
    /\ UNCHANGED earlier

NextCustomize == CallCustomize

SpecCustomize == InitCustomize /\ [][NextCustomize]_vars

----------------------------------------------------------------------------
(* C17 *)

\* s ends with a dash followed by vendor
EndsWithDashVendor(s, vendor) ==
    \E k \in 0..Len(s) :
       /\ Len(s) = k + 1 + Len(vendor)
       /\ s[k + 1] = "-"
       /\ \A j \in 1..Len(vendor) : s[k + 1 + j] = vendor[j]

\* the records the vendor list allows
Allowed(dep, vendors) ==
    /\ "id" \in DOMAIN dep
    /\ IsStr(dep["id"])
    /\ \E n \in DOMAIN vendors : EndsWithDashVendor(dep["id"].str, vendors[n])

\* new is old without the records outside keep, the others in their order
SubSequenceOf(new, old, keep) ==
    /\ Len(new) = Cardinality(keep)
    /\ \A k \in DOMAIN new :
         new[k] = old[CHOOSE i \in keep : Cardinality({j \in keep : j < i}) = k - 1]

\* the call ran a vendor filter on a document with a list of dependency
\* records
FilteredDependencies ==
    /\ op = "UpdateTOMLFile"
    /\ calls # <<>>
    /\ calls[1].fn.kind = "vendors"
    /\ "metadata" \in DOMAIN calls[1].saw
    /\ IsTbl(calls[1].saw["metadata"])
    /\ "dependencies" \in DOMAIN calls[1].saw["metadata"].tbl
    /\ IsTbls(calls[1].saw["metadata"].tbl["dependencies"])

\* C17: RemoveDependenciesUnlessInVendorList(vendors) leaves in
\* metadata.dependencies exactly the records whose id ends with a dash and a
\* vendor of the list, whole, unchanged and in their original order; with an
\* empty list it leaves the empty sequence; no other key of the document
\* changes
C17_KeepsExactlyTheVendors ==
    FilteredDependencies =>
      LET vendors == calls[1].fn.val.list
          sawMeta == calls[1].saw["metadata"].tbl
          old == sawMeta["dependencies"].tbls
          leftMeta == calls[1].left["metadata"].tbl
          new == leftMeta["dependencies"].tbls
      IN  /\ SubSequenceOf(new, old, {i \in DOMAIN old : Allowed(old[i], vendors)})
          /\ vendors = <<>> => new = <<>>
          /\ DOMAIN calls[1].left = DOMAIN calls[1].saw
          /\ \A k \in DOMAIN calls[1].saw \ {"metadata"} :
               calls[1].left[k] = calls[1].saw[k]
          /\ DOMAIN leftMeta = DOMAIN sawMeta
          /\ \A k \in DOMAIN sawMeta \ {"dependencies"} : leftMeta[k] = sawMeta[k]

\* two vendors, three records: the first and the last are kept in this
\* order, the one in the middle, whose id ends with a vendor but has no dash
\* before it, is removed
C17_Witness ==
    /\ FilteredDependencies
    /\ err = ""
    /\ calls[1].fn.val.list = <<Baz, Foo>>
    /\ calls[1].saw["metadata"].tbl["dependencies"].tbls
         = <<[id |-> Str(<<"jdk", "-", "foo">>), version |-> Str(V1)],
             [id |-> Str(<<"jdk", "foo">>)],
             [id |-> Str(<<"jdk", "-", "baz">>)]>>
    /\ calls[1].left["metadata"].tbl["dependencies"].tbls
         = <<[id |-> Str(<<"jdk", "-", "foo">>), version |-> Str(V1)],
             [id |-> Str(<<"jdk", "-", "baz">>)]>>

----------------------------------------------------------------------------
(* C18 *)

\* the call ran a configuration update on a document with a list of
\* configuration entries
UpdatedConfigurations ==
    /\ op = "UpdateTOMLFile"
    /\ calls # <<>>
    /\ calls[1].fn.kind = "configure"
    /\ "metadata" \in DOMAIN calls[1].saw
    /\ IsTbl(calls[1].saw["metadata"])
    /\ "configurations" \in DOMAIN calls[1].saw["metadata"].tbl
    /\ IsTbls(calls[1].saw["metadata"].tbl["configurations"])

\* the name of the entry is a key of newConfigs
Named(config, newConfigs) ==
    /\ "name" \in DOMAIN config
    /\ IsStr(config["name"])
    /\ config["name"].str \in DOMAIN newConfigs

\* C18: UpdateBuildpackConfiguration(newConfigs) sets default, on every
\* entry whose name is a key of newConfigs, to the value mapped to the name;
\* every other field of such an entry, every other entry, the number of
\* entries and every other key of the document stay as they were
C18_OnlyNamedDefaultsChange ==
    UpdatedConfigurations =>
      LET newConfigs == calls[1].fn.val.map
          sawMeta == calls[1].saw["metadata"].tbl
          old == sawMeta["configurations"].tbls
          leftMeta == calls[1].left["metadata"].tbl
          new == leftMeta["configurations"].tbls
      IN  /\ Len(new) = Len(old)
          /\ \A i \in DOMAIN old :
               IF Named(old[i], newConfigs)
               THEN /\ DOMAIN new[i] = DOMAIN old[i] \cup {"default"}
                    /\ new[i]["default"] = newConfigs[old[i]["name"].str]
                    /\ \A k \in DOMAIN old[i] \ {"default"} : new[i][k] = old[i][k]
               ELSE new[i] = old[i]
          /\ DOMAIN calls[1].left = DOMAIN calls[1].saw
          /\ \A k \in DOMAIN calls[1].saw \ {"metadata"} :
               calls[1].left[k] = calls[1].saw[k]
          /\ DOMAIN leftMeta = DOMAIN sawMeta
          /\ \A k \in DOMAIN sawMeta \ {"configurations"} : leftMeta[k] = sawMeta[k]

\* newConfigs has foo and a key that names no entry: of the entries foo and
\* baz only foo gets the new default, and the file is written
C18_Witness ==
    /\ UpdatedConfigurations
    /\ err = ""
    /\ DOMAIN calls[1].fn.val.map = {Foo, Nope}
    /\ calls[1].saw["metadata"].tbl["configurations"].tbls
         = <<[name |-> Str(Foo), default |-> S1], [name |-> Str(Baz), default |-> S2]>>
    /\ calls[1].left["metadata"].tbl["configurations"].tbls
         = <<[name |-> Str(Foo), default |-> NewDefault(Foo)],
             [name |-> Str(Baz), default |-> S2]>>
    /\ Unmarshal(file).md = calls[1].left

----------------------------------------------------------------------------
(* builder/jvm_vendors.go and packager.BundleBuildpack.Execute *)

File(c) == [exists |-> TRUE, content |-> c]

\* sherpa.CopyFileFrom(source, destination): "open" fails before the
\* destination is touched, "copy" after it was created and truncated
CopyFileFrom(source, destination, fault) ==
    IF ~source.exists \/ fault = "open" THEN [err |-> TRUE, dst |-> destination]
    ELSE IF fault = "copy" THEN [err |-> TRUE, dst |-> File(<<>>)]
    ELSE [err |-> FALSE, dst |-> source]

CopyFaults == {"none", "open", "copy"}

JVMVendor(buildpackID, default, vendorID) ==
    [BuildpackID |-> buildpackID, Default |-> default,
     Description |-> <<"about", " ">> \o vendorID, Homepage |-> <<"home", "/">> \o vendorID,
     Name |-> <<"name", " ">> \o vendorID, VendorID |-> vendorID]

\* var fullVendor JVMVendor
ZeroVendor ==
    [BuildpackID |-> <<>>, Default |-> FALSE, Description |-> <<>>,
     Homepage |-> <<>>, Name |-> <<>>, VendorID |-> <<>>]

selectVendor(vendorID, JVMVendors) ==
    IF \E n \in DOMAIN JVMVendors : JVMVendors[n].VendorID = vendorID
    THEN JVMVendors[CHOOSE n \in DOMAIN JVMVendors :
                      /\ JVMVendors[n].VendorID = vendorID
                      /\ \A m \in 1..(n - 1) : JVMVendors[m].VendorID # vendorID]
    ELSE ZeroVendor

\* slices.Contains
Contains(list, x) == \E n \in DOMAIN list : list[n] = x

\* selectDefaultVendor: the vendor id and the error; with no vendor selected
\* SelectedVendors[0] is out of range
selectDefaultVendor(c) ==
    LET byFlag == IF c.DefaultVendor # <<>> /\ Contains(c.SelectedVendors, c.DefaultVendor)
                  THEN c.DefaultVendor ELSE <<>>
        marked == {n \in DOMAIN c.JVMVendors :
                     /\ c.JVMVendors[n].Default
                     /\ Contains(c.SelectedVendors, c.JVMVendors[n].VendorID)}
        byMark == IF marked = {} THEN <<>>
                  ELSE c.JVMVendors[CHOOSE n \in marked : \A m \in marked : n <= m].VendorID
    IN  IF byFlag # <<>> THEN [vendor |-> byFlag, err |-> ""]
        ELSE IF byMark # <<>> THEN [vendor |-> byMark, err |-> ""]
        ELSE IF Len(c.JVMVendors) > 0 /\ c.SelectedVendors = <<>>
             THEN [vendor |-> <<>>, err |-> "panic: index out of range"]
        ELSE IF Len(c.JVMVendors) > 0 /\ c.SelectedVendors[1] # <<>>
             THEN [vendor |-> c.SelectedVendors[1], err |-> ""]
        ELSE [vendor |-> <<>>, err |-> "no default vendor"]

\* strings.SplitN(buildpackID, "@", 2)
SplitN(buildpackID) ==
    IF \E k \in DOMAIN buildpackID : buildpackID[k] = "@"
    THEN LET k == CHOOSE k \in DOMAIN buildpackID :
                    /\ buildpackID[k] = "@"
                    /\ \A m \in 1..(k - 1) : buildpackID[m] # "@"
         IN  <<SubSeq(buildpackID, 1, k - 1), SubSeq(buildpackID, k + 1, Len(buildpackID))>>
    ELSE <<buildpackID>>

RECURSIVE Join(_)
\* strings.Join(list, ",")
Join(list) ==
    IF list = <<>> THEN <<>>
    ELSE IF Len(list) = 1 THEN list[1]
    ELSE list[1] \o <<",">> \o Join(Tail(list))

BP_JVM_VENDORS == <<"BP_JVM_VENDORS">>
BP_JVM_VENDOR == <<"BP_JVM_VENDOR">>

\* the three functions CustomizeBuildpackTOML hands to MultiUpdateTOMLFILE
CustomizeBuildpackTOMLFns(jvmVendor, version) ==
    <<FnDetails(jvmVendor, version),
      FnConfigure([k \in {BP_JVM_VENDORS} |-> Str(jvmVendor.VendorID)]),
      FnVendors(<<jvmVendor.VendorID>>)>>

\* the function BuildSingleBuildpack hands to UpdateTOMLFile
SingleBuildpackFn(c, defaultVendorId) ==
    FnConfigure([k \in {BP_JVM_VENDORS, BP_JVM_VENDOR} |->
                   IF k = BP_JVM_VENDORS THEN Str(Join(c.SelectedVendors))
                   ELSE Str(defaultVendorId)])

Step(name, n, ok, c) == [step |-> name, iter |-> n, ok |-> ok, toml |-> c]

\* mutant: the clean-up is never skipped
SkipCleanNever(n, ids) == FALSE

\* pkgCmd.SkipClean = i < len(b.BuildpackIDs)-1, with n = i + 1
SkipClean(n, ids) == n < Len(ids)

PackageFaults == {"none", "mkdir", "exists", "package", "clean"}

\* BundleBuildpack.Execute on the buildpack.toml c: the error it returns and
\* the steps it took; what CompileAndBundleComponent or BundleComposite
\* returns is dropped
BundleBuildpackExecute(skipClean, c, n, fault) ==
    IF fault = "mkdir" THEN [err |-> "unable to create temporary directory", steps |-> <<>>]
    ELSE IF fault = "exists" THEN [err |-> "unable to check if file exists", steps |-> <<>>]
    ELSE
    LET packaged == <<Step("package", n, fault # "package", c)>> IN
    IF skipClean THEN [err |-> "", steps |-> packaged]
    ELSE IF fault = "clean"
    THEN [err |-> "unable to clean up docker images",
          steps |-> Append(packaged, Step("clean", n, FALSE, c))]
    ELSE [err |-> "", steps |-> Append(packaged, Step("clean", n, TRUE, c))]

----------------------------------------------------------------------------
(* inputs of the JVM vendors build *)

IdA == <<"org/a", "@", "1.0.0">>
IdBad == <<"org/c">>

BuildpackIDLists == UNION {[1..n -> {IdA, IdBad}] : n \in 0..MaxVendors}

\* the embedded jvm_vendors.toml
KnownVendors == <<JVMVendor(<<"org/foo">>, FALSE, Foo), JVMVendor(<<"org/baz">>, TRUE, Baz)>>

Command(single, ids, vendors, default) ==
    [SingleBuildpack |-> single, BuildpackIDs |-> ids, SelectedVendors |-> vendors,
     DefaultVendor |-> default, JVMVendors |-> KnownVendors]

Commands ==
    {Command(FALSE, ids, vendors, <<>>) : ids \in BuildpackIDLists, vendors \in VendorLists}
    \cup
    {Command(TRUE, ids, vendors, default) :
        ids \in BuildpackIDLists, vendors \in VendorLists, default \in {<<>>, Foo, Nope}}

\* a buildpack.toml of the JVM vendors buildpack
OriginalTOML ==
    <<Line(<<"#", "lic">>, NoValue, TRUE),
      Line(<<"buildpack">>, Tbl([id |-> Str(<<"org/jvm">>), version |-> Str(<<"0">>)]), TRUE),
      Line(<<"metadata">>,
           Tbl([configurations |->
                  Tbls(<<[name |-> Str(BP_JVM_VENDORS), default |-> Str(<<>>)],
                         [name |-> Str(BP_JVM_VENDOR), default |-> Str(<<>>)]>>),
                dependencies |->
                  Tbls(<<[id |-> Str(<<"jdk", "-", "foo">>)],
                         [id |-> Str(<<"jre", "-", "baz">>)],
                         [id |-> Str(<<"jdk", "-", "baz">>)]>>)]),
           TRUE)>>

\* what an earlier, failed build left in the backup
StaleTOML == <<Line(<<"#", "old">>, NoValue, TRUE), Line(<<"a">>, S1, TRUE)>>

BuildFiles == {OriginalTOML, <<Line(<<"a">>, S2, TRUE)>>}

----------------------------------------------------------------------------
(* BuildJvmVendorsCommand.Execute, step by step *)

InitBuild ==
    /\ file \in BuildFiles
    /\ before = file
    /\ backup \in {NoBackup, File(StaleTOML)}
    /\ cmd \in Commands
    /\ pc = "Execute"
    /\ iter = 0
    /\ steps = <<>>
    /\ NoPackaging
    /\ earlier = NoEarlier
    /\ op = "none"
    /\ fns = <<>>
    /\ b = NoDependency
    /\ err = ""
    /\ io = <<>>
    /\ calls = <<>>
    /\ matched = {}
    /\ record = NoRecord
    /\ arch = <<>>

patcherVars == <<before, op, fns, b, io, calls, matched, record, arch, cmd>>

\* return fmt.Errorf(...)
Fail(e) == err' = e /\ pc' = "done"

Goto(label) == pc' = label /\ err' = err

\* mutant: an existing backup is taken for the original and the build goes on
ExecuteStatRecovers ==
    /\ pc = "Execute"
    /\ \E fault \in {"none", "stat"} :
         IF fault = "stat" THEN Fail("failed to check for backup copy") /\ file' = file
         ELSE IF backup.exists
         THEN file' = backup.content /\ Goto(IF cmd.SingleBuildpack THEN "BuildSingleBuildpack"
                                            ELSE "BuildMultipleBuildpacks")
         ELSE Goto("backup") /\ file' = file
    /\ UNCHANGED <<backup, iter, steps>>
    /\ UNCHANGED patcherVars
    /\ UNCHANGED packagerVars
    /\ UNCHANGED earlier

\* os.Stat(b.BuildpackTOMLBackupPath)
ExecuteStat ==
    /\ pc = "Execute"
    /\ \E fault \in {"none", "stat"} :
         IF fault = "stat" THEN Fail("failed to check for backup copy")
         ELSE IF backup.exists THEN Fail("backup copy already exists")
         ELSE Goto("backup")
    /\ UNCHANGED <<file, backup, iter, steps>>
    /\ UNCHANGED patcherVars
    /\ UNCHANGED packagerVars
    /\ UNCHANGED earlier

\* sherpa.CopyFileFrom(b.BuildpackTOMLPath, b.BuildpackTOMLBackupPath)
ExecuteBackup ==
    /\ pc = "backup"
    /\ \E fault \in CopyFaults :
         \E r \in {CopyFileFrom(File(file), backup, fault)} :
           /\ backup' = r.dst
           /\ IF r.err THEN Fail("failed to make backup copy")
              ELSE Goto(IF cmd.SingleBuildpack THEN "BuildSingleBuildpack"
                        ELSE "BuildMultipleBuildpacks")
    /\ UNCHANGED <<file, iter, steps>>
    /\ UNCHANGED patcherVars
    /\ UNCHANGED packagerVars
    /\ UNCHANGED earlier

\* BuildSingleBuildpack up to the call of pkgCmd.Execute
BuildSingleBuildpack ==
    /\ pc = "BuildSingleBuildpack"
    /\ IF Len(cmd.BuildpackIDs) = 0 THEN Fail("no buildpack IDs specified") /\ UNCHANGED <<file, steps>>
       ELSE IF Len(cmd.BuildpackIDs) > 1 THEN Fail("single buildpack requires exactly one buildpack ID") /\ UNCHANGED <<file, steps>>
       ELSE IF Len(SplitN(cmd.BuildpackIDs[1])) # 2 THEN Fail("invalid buildpack ID") /\ UNCHANGED <<file, steps>>
       ELSE IF selectDefaultVendor(cmd).err # "" THEN Fail(selectDefaultVendor(cmd).err) /\ UNCHANGED <<file, steps>>
       ELSE \E fault \in FaultKinds :
              \E r \in {UpdateTOMLFile(file, SingleBuildpackFn(cmd, selectDefaultVendor(cmd).vendor), fault)} :
                /\ file' = r.file
                /\ steps' = Append(steps, Step("customize", iter, r.err = "", r.file))
                /\ IF r.err # "" THEN Fail("failed to customize buildpack.toml") ELSE Goto("package")
    /\ UNCHANGED <<backup, iter>>
    /\ UNCHANGED patcherVars
    /\ UNCHANGED packagerVars
    /\ UNCHANGED earlier

\* BuildMultipleBuildpacks: the check before the loop
BuildMultipleBuildpacks ==
    /\ pc = "BuildMultipleBuildpacks"
    /\ IF Len(cmd.BuildpackIDs) # Len(cmd.SelectedVendors)
       THEN Fail("number of buildpack IDs must match number of selected vendors") /\ iter' = iter
       ELSE Goto("loop") /\ iter' = 1
    /\ UNCHANGED <<file, backup, steps>>
    /\ UNCHANGED patcherVars
    /\ UNCHANGED packagerVars
    /\ UNCHANGED earlier

\* for i, buildpackID := range b.BuildpackIDs, up to selectVendor
LoopHead ==
    /\ pc = "loop"
    /\ IF iter > Len(cmd.BuildpackIDs) THEN Goto("restore original")
       ELSE IF Len(SplitN(cmd.BuildpackIDs[iter])) # 2 THEN Fail("invalid buildpack ID")
       ELSE Goto("CustomizeBuildpackTOML")
    /\ UNCHANGED <<file, backup, iter, steps>>
    /\ UNCHANGED patcherVars
    /\ UNCHANGED packagerVars
    /\ UNCHANGED earlier

\* mutant: the customization starts from the buildpack.toml as the vendor
\* before left it
CustomizeRestoreSkipped ==
    /\ pc = "CustomizeBuildpackTOML"
    /\ file' = file
    /\ steps' = Append(steps, Step("restore", iter, TRUE, file))
    /\ Goto("MultiUpdateTOMLFILE")
    /\ UNCHANGED <<backup, iter>>
    /\ UNCHANGED patcherVars
    /\ UNCHANGED packagerVars
    /\ UNCHANGED earlier

\* CustomizeBuildpackTOML: sherpa.CopyFileFrom(backup, buildpack.toml)
CustomizeRestore ==
    /\ pc = "CustomizeBuildpackTOML"
    /\ \E fault \in CopyFaults :
         \E r \in {CopyFileFrom(backup, File(file), fault)} :
           /\ file' = r.dst.content
           /\ steps' = Append(steps, Step("restore", iter, ~r.err, r.dst.content))
           /\ IF r.err THEN Fail("failed to customize buildpack.toml")
              ELSE Goto("MultiUpdateTOMLFILE")
    /\ UNCHANGED <<backup, iter>>
    /\ UNCHANGED patcherVars
    /\ UNCHANGED packagerVars
    /\ UNCHANGED earlier

\* mutant: the customization is written to the backup path
CustomizeUpdateOnBackup ==
    /\ pc = "MultiUpdateTOMLFILE"
    /\ \E fault \in Faults(3) :
         \E r \in {MultiUpdateTOMLFILE(file,
                     CustomizeBuildpackTOMLFns(
                        selectVendor(cmd.SelectedVendors[iter], cmd.JVMVendors),
                        SplitN(cmd.BuildpackIDs[iter])[2]),
                     1, fault)} :
           /\ backup' = File(r.file)
           /\ steps' = Append(steps, Step("customize", iter, r.err = "", r.file))
           /\ IF r.err # "" THEN Fail("failed to customize buildpack.toml")
              ELSE Goto("package")
    /\ UNCHANGED <<file, iter>>
    /\ UNCHANGED patcherVars
    /\ UNCHANGED packagerVars
    /\ UNCHANGED earlier

\* CustomizeBuildpackTOML: internal.MultiUpdateTOMLFILE(...)
CustomizeUpdate ==
    /\ pc = "MultiUpdateTOMLFILE"
    /\ \E fault \in Faults(3) :
         \E r \in {MultiUpdateTOMLFILE(file,
                     CustomizeBuildpackTOMLFns(
                        selectVendor(cmd.SelectedVendors[iter], cmd.JVMVendors),
                        SplitN(cmd.BuildpackIDs[iter])[2]),
                     1, fault)} :
           /\ file' = r.file
           /\ steps' = Append(steps, Step("customize", iter, r.err = "", r.file))
           /\ IF r.err # "" THEN Fail("failed to customize buildpack.toml")
              ELSE Goto("package")
    /\ UNCHANGED <<backup, iter>>
    /\ UNCHANGED patcherVars
    /\ UNCHANGED packagerVars
    /\ UNCHANGED earlier

\* pkgCmd.Execute() of either build
Package ==
    /\ pc = "package"
    /\ \E fault \in PackageFaults :
         \E r \in {BundleBuildpackExecute(
                      ~cmd.SingleBuildpack /\ SkipClean(iter, cmd.BuildpackIDs),
                      file, iter, fault)} :
           /\ steps' = steps \o r.steps
           /\ IF r.err # "" THEN Fail(r.err) /\ iter' = iter
              ELSE IF cmd.SingleBuildpack THEN Goto("restore original") /\ iter' = iter
              ELSE Goto("loop") /\ iter' = iter + 1
    /\ UNCHANGED <<file, backup>>
    /\ UNCHANGED patcherVars
    /\ UNCHANGED packagerVars
    /\ UNCHANGED earlier

\* mutant: the backup is removed without being copied back
RestoreOriginalSkipped ==
    /\ pc = "restore original"
    /\ Goto("remove")
    /\ UNCHANGED <<file, backup, iter, steps>>
    /\ UNCHANGED patcherVars
    /\ UNCHANGED packagerVars
    /\ UNCHANGED earlier

\* sherpa.CopyFileFrom(b.BuildpackTOMLBackupPath, b.BuildpackTOMLPath)
RestoreOriginal ==
    /\ pc = "restore original"
    /\ \E fault \in CopyFaults :
         \E r \in {CopyFileFrom(backup, File(file), fault)} :
           /\ file' = r.dst.content
           /\ IF r.err THEN Fail("failed to restore original buildpack.toml")
              ELSE Goto("remove")
    /\ UNCHANGED <<backup, iter, steps>>
    /\ UNCHANGED patcherVars
    /\ UNCHANGED packagerVars
    /\ UNCHANGED earlier

\* return os.Remove(b.BuildpackTOMLBackupPath)
RemoveBackup ==
    /\ pc = "remove"
    /\ \E fault \in {"none", "remove"} :
         IF fault = "remove" THEN Fail("remove") /\ backup' = backup
         ELSE pc' = "done" /\ err' = err /\ backup' = NoBackup
    /\ UNCHANGED <<file, iter, steps>>
    /\ UNCHANGED patcherVars
    /\ UNCHANGED packagerVars
    /\ UNCHANGED earlier

NextBuild ==
    \/ ExecuteStat
    \/ ExecuteBackup
    \/ BuildSingleBuildpack
    \/ BuildMultipleBuildpacks
    \/ LoopHead
    \/ CustomizeRestore
    \/ CustomizeUpdate
    \/ Package
    \/ RestoreOriginal
    \/ RemoveBackup

SpecBuild == InitBuild /\ [][NextBuild]_vars

----------------------------------------------------------------------------
(* C19 *)

\* C19: when buildpack.toml.bak exists as Execute starts, the first step of
\* Execute is its last: it returns an error, and buildpack.toml, the backup
\* and the list of build steps are as they were (nothing is restored,
\* customized or packaged); no step follows a return
C19_ExistingBackupIsFatal ==
    [][ /\ pc # "done"
        /\ (pc = "Execute" /\ backup.exists) =>
              /\ pc' = "done"
              /\ err' # ""
              /\ file' = file
              /\ backup' = backup
              /\ steps' = steps ]_vars

\* Execute has returned the error about the backup; both files are as they
\* were and no build step was taken
C19_Witness ==
    /\ pc = "done"
    /\ err = "backup copy already exists"
    /\ backup = File(StaleTOML)
    /\ file = OriginalTOML
    /\ file = before
    /\ steps = <<>>

----------------------------------------------------------------------------
(* C20 *)

\* the steps of iteration n, and the names of a list of steps
StepsOf(n) == SelectSeq(steps, LAMBDA s : s.iter = n)
Names(list) == [k \in DOMAIN list |-> list[k].step]

IsPrefix(p, q) == Len(p) <= Len(q) /\ SubSeq(q, 1, Len(p)) = p

\* no step of an iteration comes after a step of a later iteration
Sequential ==
    \A j, k \in DOMAIN steps : j < k => steps[j].iter <= steps[k].iter

----------------------------------------------------------------------------
(* C21 *)

\* the default of the configuration entry called name in the buildpack.toml
\* c, <<>> when c has no such entry
ConfigDefault(c, name) ==
    LET md == Unmarshal(c).md IN
    IF /\ "metadata" \in DOMAIN md
       /\ IsTbl(md["metadata"])
       /\ "configurations" \in DOMAIN md["metadata"].tbl
       /\ IsTbls(md["metadata"].tbl["configurations"])
    THEN LET cfgs == md["metadata"].tbl["configurations"].tbls
             at == {n \in DOMAIN cfgs : cfgs[n]["name"] = Str(name)}
         IN  IF at = {} THEN <<>> ELSE cfgs[CHOOSE n \in at : TRUE]["default"]
    ELSE <<>>

\* the vendor the claim names: the flag when it is set, or else the vendor
\* marked as default, or else the first vendor of the list; <<>> when there
\* is none
ClaimedDefaultVendor(c) ==
    LET marked == {n \in DOMAIN c.JVMVendors :
                     /\ c.JVMVendors[n].Default
                     /\ Contains(c.SelectedVendors, c.JVMVendors[n].VendorID)}
    IN  IF c.DefaultVendor # <<>> THEN c.DefaultVendor
        ELSE IF marked # {}
             THEN c.JVMVendors[CHOOSE n \in marked : \A m \in marked : n <= m].VendorID
        ELSE IF c.SelectedVendors # <<>> THEN c.SelectedVendors[1]
        ELSE <<>>

\* the single build has customized buildpack.toml and the file has an entry
\* BP_JVM_VENDOR
WroteDefaultVendor ==
    /\ cmd.SingleBuildpack
    /\ steps # <<>>
    /\ steps[1].step = "customize"
    /\ steps[1].ok
    /\ ConfigDefault(before, BP_JVM_VENDOR) # <<>>

\* C21: in the single-buildpack build the default written to BP_JVM_VENDOR
\* is the --default-vendor value when the flag is set, or else the vendor
\* marked as default, or else the first vendor of the list, and the build
\* fails for want of a default vendor only when none of these gives one
C21_DefaultVendorPrecedence ==
    /\ WroteDefaultVendor =>
         ConfigDefault(steps[1].toml, BP_JVM_VENDOR) = Str(ClaimedDefaultVendor(cmd))
    /\ (cmd.SingleBuildpack /\ err \in {"no default vendor", "panic: index out of range"}) =>
         ClaimedDefaultVendor(cmd) = <<>>

----------------------------------------------------------------------------
(* packager/buildpack.go *)

\* the bytes line feed, carriage return and double quote
LF == "<LF>"
CR == "<CR>"
DQ == "<DQ>"

\* filepath.Join(dir, name)
FilepathJoin(dir, name) == dir \o <<"/", name>>

\* os.LookupEnv
Unset == [found |-> FALSE, value |-> <<>>]
SetTo(v) == [found |-> TRUE, value |-> v]

GOARCH == <<"amd64">>

archFromSystem(env) ==
    <<"linux/">> \o (IF env.BP_ARCH.found THEN env.BP_ARCH.value ELSE GOARCH)

\* effect.Execution as handed to the executor, with what the command wrote
\* to Stdout and whether it succeeded
Execution(command, args, dir, stdout, ok) ==
    [Command |-> command, Args |-> args, Dir |-> dir, Stdout |-> stdout, ok |-> ok]

\* ExecutePackage(workingDirectory, additionalArgs...)
ExecutePackage(bnd, workingDirectory, additionalArgs, fault) ==
    LET pullPolicy == IF bnd.env.BP_PULL_POLICY.found THEN bnd.env.BP_PULL_POLICY.value
                      ELSE <<"if-not-present">>
        imageName == IF bnd.RegistryName # <<>> THEN bnd.RegistryName ELSE bnd.BuildpackID
        args == <<<<"buildpack">>, <<"package">>, imageName, <<"--pull-policy">>, pullPolicy>>
                  \o (IF bnd.Publish THEN <<<<"--publish">>>>
                      ELSE <<<<"--target">>, archFromSystem(bnd.env)>>)
                  \o additionalArgs
    IN  [err |-> IF fault = "pack" THEN "unable to execute pack buildpack package command"
                 ELSE "",
         execs |-> <<Execution("pack", args, workingDirectory, <<>>, fault # "pack")>>]

\* the bytes WriteString puts at the head of the new package.toml
URIHeader(dir) == <<"[buildpack]", LF, "uri = ", DQ>> \o dir \o <<DQ, LF, LF>>

\* copyPackageTomlAndAddURI(buildpackPath, destDir): the error and the files
\* of destDir
copyPackageTomlAndAddURI(bnd, destDir, fault) ==
    LET copied == CopyFileFrom(bnd.files["buildpack.toml"], NoBackup,
                               IF fault = "copy" THEN "open" ELSE "none")
        one == [k \in {"buildpack.toml"} |-> copied.dst]
        two(c) == [k \in {"buildpack.toml", "package.toml"} |->
                     IF k = "package.toml" THEN File(c) ELSE copied.dst]
    IN  IF copied.err THEN [err |-> "unable to copy buildpack.toml", built |-> NoFiles]
        ELSE IF ~bnd.files["package.toml"].exists \/ fault = "open"
        THEN [err |-> "unable to open package.toml", built |-> one]
        ELSE IF fault = "create"
        THEN [err |-> "unable to create package.toml", built |-> one]
        ELSE IF fault = "write uri"
        THEN [err |-> "unable to write uri", built |-> two(<<>>)]
        ELSE IF fault = "copy rest"
        THEN [err |-> "unable to copy rest of package.toml", built |-> two(URIHeader(destDir))]
        ELSE [err |-> "",
              built |-> two(URIHeader(destDir) \o bnd.files["package.toml"].content)]

\* BundleComposite(buildDirectory): the error, the files of the build
\* directory and the commands run
BundleComposite(bnd, buildDirectory, fault) ==
    LET made == copyPackageTomlAndAddURI(bnd, buildDirectory, fault)
        args == <<<<"--config">>, FilepathJoin(buildDirectory, "package.toml")>>
                  \o (IF ~bnd.env.BP_FLATTEN_DISABLED THEN <<<<"--flatten">>>> ELSE <<>>)
        ran == ExecutePackage(bnd, bnd.BuildpackPath, args, fault)
    IN  IF made.err # ""
        THEN [err |-> "unable to copy package.toml and add URI", built |-> made.built,
              execs |-> <<>>]
        ELSE [err |-> ran.err, built |-> made.built, execs |-> ran.execs]

CompositeFaults == {"none", "copy", "open", "create", "write uri", "copy rest", "pack"}

----------------------------------------------------------------------------
(* inputs of the composite bundling *)

PackageTOMLs == {NoBackup, File(<<>>), File(<<"some-toml">>),
                 File(<<"[[dependencies]]", LF, "uri = ", DQ, "x", DQ, LF>>)}

Bundles ==
    [BuildpackID : {<<"some-id">>},
     BuildpackPath : {<<"/bp">>},
     RegistryName : {<<>>, <<"reg/some-id">>},
     Publish : BOOLEAN,
     env : [BP_PULL_POLICY : {Unset, SetTo(<<"always">>)},
            BP_FLATTEN_DISABLED : BOOLEAN,
            BP_ARCH : {Unset, SetTo(<<"arm64">>)}],
     files : {[k \in {"buildpack.toml", "package.toml"} |->
                 IF k = "package.toml" THEN pt ELSE bt] :
                 pt \in PackageTOMLs, bt \in {NoBackup, File(OriginalTOML)}}]

BuildDirectory == <<"/tmp/BundleBuildpack1">>

\* nothing but the packager's variables is in use
NoBuild ==
    /\ file = <<>>
    /\ before = <<>>
    /\ op = "none"
    /\ fns = <<>>
    /\ b = NoDependency
    /\ err = ""
    /\ io = <<>>
    /\ calls = <<>>
    /\ matched = {}
    /\ record = NoRecord
    /\ arch = <<>>
    /\ backup = NoBackup
    /\ pc = "idle"
    /\ cmd = NoCommand
    /\ iter = 0
    /\ steps = <<>>
    /\ earlier = NoEarlier

InitComposite ==
    /\ NoBuild
    /\ bundle \in Bundles
    /\ built = NoFiles
    /\ execs = <<>>

CallBundleComposite ==
    /\ op = "none"
    /\ op' = "BundleComposite"
    /\ \E fault \in CompositeFaults :
         \E r \in {BundleComposite(bundle, BuildDirectory, fault)} :
           /\ err' = r.err
           /\ built' = r.built
           /\ execs' = r.execs
    /\ UNCHANGED <<file, before, fns, b, io, calls, matched, record, arch, bundle>>
    /\ UNCHANGED builderVars
    /\ UNCHANGED earlier

NextComposite == CallBundleComposite

SpecComposite == InitComposite /\ [][NextComposite]_vars

----------------------------------------------------------------------------
(* C22 *)

\* BundleComposite returned without error
Bundled == op = "BundleComposite" /\ err = ""

\* position k of args holds --config and the next one the package.toml of
\* the build directory
ConfigArgAt(args, k) ==
    /\ k + 1 \in DOMAIN args
    /\ args[k] = <<"--config">>
    /\ args[k + 1] = BuildDirectory \o <<"/", "package.toml">>

\* C22: the package.toml BundleComposite writes into the build directory is
\* a [buildpack] table whose uri is the buildpack path, an empty line and the
\* content of the buildpack's own package.toml, and pack buildpack package
\* is then run from the buildpack directory with --config <build
\* directory>/package.toml
C22_PackageTomlPointsAtBuildpack ==
    Bundled =>
      /\ "package.toml" \in DOMAIN built
      /\ built["package.toml"]
           = File(<<"[buildpack]", LF, "uri = ", DQ>> \o bundle.BuildpackPath
                    \o <<DQ, LF, LF>> \o bundle.files["package.toml"].content)
      /\ Len(execs) = 1
      /\ execs[1].Command = "pack"
      /\ SubSeq(execs[1].Args, 1, 2) = <<<<"buildpack">>, <<"package">>>>
      /\ execs[1].Dir = bundle.BuildpackPath
      /\ \E k \in DOMAIN execs[1].Args : ConfigArgAt(execs[1].Args, k)

----------------------------------------------------------------------------
(* packager/buildpack.go: CleanUpDockerImages *)

WhiteSpace == {" ", LF, CR}

RECURSIVE StringsTrimLeft(_)
StringsTrimLeft(s) ==
    IF s # <<>> /\ s[1] \in WhiteSpace THEN StringsTrimLeft(Tail(s)) ELSE s

RECURSIVE StringsTrimRight(_)
StringsTrimRight(s) ==
    IF s # <<>> /\ s[Len(s)] \in WhiteSpace
    THEN StringsTrimRight(SubSeq(s, 1, Len(s) - 1)) ELSE s

\* strings.TrimSpace(s)
StringsTrimSpace(s) == StringsTrimRight(StringsTrimLeft(s))

RECURSIVE StringsSplit(_, _)
\* strings.Split(s, sep) for a one-byte sep: acc is the piece being read
StringsSplit(s, acc) ==
    IF s = <<>> THEN <<acc>>
    ELSE IF s[1] = LF THEN <<acc>> \o StringsSplit(Tail(s), <<>>)
    ELSE StringsSplit(Tail(s), Append(acc, s[1]))

\* mutant: the blank lines of the listing are taken for images too
imagesToCleanWithBlanks(stdout) ==
    LET imgs == StringsSplit(StringsTrimSpace(stdout), <<>>) IN
    [k \in DOMAIN imgs |-> StringsTrimSpace(imgs[k])]

\* the loop that fills imagesToClean from the listing
imagesToClean(stdout) ==
    LET imgs == StringsSplit(StringsTrimSpace(stdout), <<>>)
        trimmed == [k \in DOMAIN imgs |-> StringsTrimSpace(imgs[k])]
    IN  SelectSeq(trimmed, LAMBDA img : img # <<>>)

ListDangling(stdout, ok) ==
    Execution("docker",
              <<<<"image">>, <<"ls">>, <<"--quiet">>, <<"--no-trunc">>, <<"--filter">>,
                <<"dangling=true">>>>,
              <<>>, stdout, ok)

\* CleanUpDockerImages when docker image ls writes stdout: the error and the
\* commands run
CleanUpDockerImages(stdout, fault) ==
    IF fault = "ls"
    THEN [err |-> "unable to execute docker image ls command",
          execs |-> <<ListDangling(stdout, FALSE)>>]
    ELSE
    LET images == imagesToClean(stdout)
        remove == Execution("docker", <<<<"image">>, <<"rm">>, <<"-f">>>> \o images,
                            <<>>, <<>>, fault # "rm")
    IN  IF images = <<>> THEN [err |-> "", execs |-> <<ListDangling(stdout, TRUE)>>]
        ELSE [err |-> IF fault = "rm" THEN "unable to execute docker image rm command" ELSE "",
              execs |-> <<ListDangling(stdout, TRUE), remove>>]

MaxListing == 5

Image1 == "sha256:1"
Image2 == "sha256:2"

\* what docker image ls may write
Listings == UNION {[1..n -> {" ", LF, CR, Image1, Image2}] : n \in 0..MaxListing}

CleanFaults == {"none", "ls", "rm"}

InitCleanUp ==
    /\ NoBuild
    /\ NoPackaging

CallCleanUpDockerImages ==
    /\ op = "none"
    /\ op' = "CleanUpDockerImages"
    /\ \E stdout \in Listings, fault \in CleanFaults :
         \E r \in {CleanUpDockerImages(stdout, fault)} :
           /\ err' = r.err
           /\ execs' = r.execs
    /\ UNCHANGED <<file, before, fns, b, io, calls, matched, record, arch, bundle, built>>
    /\ UNCHANGED builderVars
    /\ UNCHANGED earlier

NextCleanUp == CallCleanUpDockerImages

SpecCleanUp == InitCleanUp /\ [][NextCleanUp]_vars

----------------------------------------------------------------------------
(* C23 *)

\* the positions of the line feeds of s, with 0 and Len(s) + 1 at the ends,
\* in increasing order
Cuts(s) ==
    LET at == {0, Len(s) + 1} \cup {k \in DOMAIN s : s[k] = LF} IN
    [n \in 1..Cardinality(at) |-> CHOOSE k \in at : Cardinality({j \in at : j < k}) = n - 1]

\* line n of s, without its line feed
LineOf(s, n) == SubSeq(s, Cuts(s)[n] + 1, Cuts(s)[n + 1] - 1)

\* l without the white space at its two ends
Stripped(l) ==
    LET black == {k \in DOMAIN l : l[k] \notin WhiteSpace} IN
    IF black = {} THEN <<>>
    ELSE SubSeq(l, CHOOSE k \in black : \A j \in black : k <= j,
                   CHOOSE k \in black : \A j \in black : j <= k)

\* the lines of s that are not blank, stripped, in their order
NonBlankLines(s) ==
    SelectSeq([n \in 1..(Len(Cuts(s)) - 1) |-> Stripped(LineOf(s, n))],
              LAMBDA l : l # <<>>)

\* C23: CleanUpDockerImages first runs docker image ls for the dangling
\* images; when that fails it returns the error and runs nothing else; when
\* the listing has no non-blank line it runs nothing else and succeeds;
\* otherwise it then runs one docker image rm -f on the stripped non-blank
\* lines of the listing in their order, and fails exactly when that command
\* fails
C23_RemovesTheListedImagesOnce ==
    op = "CleanUpDockerImages" =>
      /\ execs # <<>>
      /\ execs[1].Command = "docker"
      /\ execs[1].Args = <<<<"image">>, <<"ls">>, <<"--quiet">>, <<"--no-trunc">>,
                           <<"--filter">>, <<"dangling=true">>>>
      /\ IF ~execs[1].ok THEN err # "" /\ Len(execs) = 1
         ELSE IF NonBlankLines(execs[1].Stdout) = <<>> THEN err = "" /\ Len(execs) = 1
         ELSE /\ Len(execs) = 2
              /\ execs[2].Command = "docker"
              /\ execs[2].Args = <<<<"image">>, <<"rm">>, <<"-f">>>>
                                   \o NonBlankLines(execs[1].Stdout)
              /\ (err # "") <=> ~execs[2].ok

\* a listing of two images with a blank line between them and a carriage
\* return after the first: one removal of the two images, in this order
C23_Witness ==
    /\ op = "CleanUpDockerImages"
    /\ err = ""
    /\ Len(execs) = 2
    /\ execs[1].Stdout = <<Image2, CR, LF, LF, Image1>>
    /\ execs[2].Args = <<<<"image">>, <<"rm">>, <<"-f">>, <<Image2>>, <<Image1>>>>

----------------------------------------------------------------------------
(* C27 *)

\* C27, as claimed: a packaging step that failed makes BundleBuildpack.Execute
\* return an error, so that the build has ended with an error and no step of
\* a later vendor follows the failed step
C27_FailedPackagingIsAnError ==
    \A k \in DOMAIN steps :
      steps[k].step = "package" /\ ~steps[k].ok =>
        /\ pc = "done"
        /\ err # ""
        /\ \A j \in DOMAIN steps : j > k => steps[j].iter = steps[k].iter

----------------------------------------------------------------------------
(* C24 *)

\* C24: when Execute has returned without error, in either mode and for any
\* number of vendors, buildpack.toml holds the content it had when Execute
\* started and the backup file does not exist
C24_SuccessLeavesTheOriginal ==
    pc = "done" /\ err = "" => file = before /\ ~backup.exists

\* a build for two vendors has returned without error after customizing
\* buildpack.toml twice
C24_Witness ==
    /\ pc = "done"
    /\ err = ""
    /\ ~cmd.SingleBuildpack
    /\ Len(cmd.BuildpackIDs) = 2
    /\ \A n \in 1..2 :
         \E k \in DOMAIN steps :
           /\ steps[k].step = "customize"
           /\ steps[k].iter = n
           /\ steps[k].ok
           /\ steps[k].toml # before
    /\ file = before
    /\ ~backup.exists

----------------------------------------------------------------------------
(* C25 *)

\* where Execute is between the creation of the backup and its deletion
BackupInPlace ==
    {"BuildSingleBuildpack", "BuildMultipleBuildpacks", "loop", "CustomizeBuildpackTOML",
     "MultiUpdateTOMLFILE", "package", "restore original", "remove"}

\* the errors with which Execute returns before it has a backup of its own
NoBackupErrors ==
    {"failed to check for backup copy", "backup copy already exists",
     "failed to make backup copy"}

\* C25: from the creation of the backup to its deletion, and after Execute
\* has failed in between, the backup file holds the content buildpack.toml
\* had when Execute started; in every state that content is in buildpack.toml
\* or in the backup file
C25_OriginalIsNeverLost ==
    /\ pc \in BackupInPlace => backup = File(before)
    /\ pc = "done" /\ err \notin NoBackupErrors \cup {""} => backup = File(before)
    /\ file = before \/ backup = File(before)

\* the customization of the second vendor has failed after truncating
\* buildpack.toml: the original is in the backup only
C25_Witness ==
    /\ pc = "done"
    /\ err = "failed to customize buildpack.toml"
    /\ iter = 2
    /\ file # before
    /\ before = OriginalTOML
    /\ backup = File(before)

----------------------------------------------------------------------------
(* C26 *)

\* the buildpack.toml made of the original by the customization of vendor n
\* alone
CustomizedFor(n) ==
    MultiUpdateTOMLFILE(before,
        CustomizeBuildpackTOMLFns(selectVendor(cmd.SelectedVendors[n], cmd.JVMVendors),
                                  SplitN(cmd.BuildpackIDs[n])[2]),
        1, NoFault).file

\* the ids of the dependencies of the buildpack.toml c
DependencyIds(c) ==
    LET md == Unmarshal(c).md IN
    IF /\ "metadata" \in DOMAIN md
       /\ IsTbl(md["metadata"])
       /\ "dependencies" \in DOMAIN md["metadata"].tbl
       /\ IsTbls(md["metadata"].tbl["dependencies"])
    THEN LET deps == md["metadata"].tbl["dependencies"].tbls IN
         [k \in DOMAIN deps |-> IF "id" \in DOMAIN deps[k] THEN deps[k]["id"] ELSE NoValue]
    ELSE <<>>

\* C26: in the multiple-buildpack build the buildpack.toml a vendor is
\* packaged from is the original with the customization of this vendor alone:
\* its dependencies are the dependencies of the original whose id ends in
\* -<vendor>, in their order, whatever the vendors before have removed
C26_EachVendorFromTheOriginal ==
    ~cmd.SingleBuildpack =>
      \A k \in DOMAIN steps :
        steps[k].step = "package" =>
          /\ steps[k].toml = CustomizedFor(steps[k].iter)
          /\ DependencyIds(steps[k].toml) =
               SelectSeq(DependencyIds(before),
                         LAMBDA id : /\ IsStr(id)
                                     /\ HasSuffix(id.str, <<"-">> \o cmd.SelectedVendors[steps[k].iter]))

\* the second vendor, baz, is packaged with the two baz dependencies of the
\* original after the first vendor, foo, was packaged with the one of foo
C26_Witness ==
    /\ ~cmd.SingleBuildpack
    /\ cmd.SelectedVendors = <<Foo, Baz>>
    /\ before = OriginalTOML
    /\ \E j, k \in DOMAIN steps :
         /\ j < k
         /\ steps[j].step = "package" /\ steps[j].iter = 1
         /\ steps[k].step = "package" /\ steps[k].iter = 2
         /\ Len(DependencyIds(steps[j].toml)) = 1
         /\ Len(DependencyIds(steps[k].toml)) = 2

----------------------------------------------------------------------------
(* C29 *)

\* C29, as claimed: after a successful Update every rewritten record has a
\* sha256 or a checksum key, its sha256 is the new value and its checksum is
\* `sha256:` and the new value
C29_NoStaleChecksum ==
    (op = "Update" /\ err = "") =>
        \A i \in matched :
            LET new == DepsOf(file)[i] IN
            /\ {"sha256", "checksum"} \cap DOMAIN new # {}
            /\ "sha256" \in DOMAIN new => new["sha256"] = Str(b.SHA256)
            /\ "checksum" \in DOMAIN new => new["checksum"] = Str(<<"sha256:">> \o b.SHA256)

----------------------------------------------------------------------------
(* the package dependency updater: PackageDependency.Update with the path of
   a builder.toml or of a package.toml *)

MaxEntries == 2

PkgId == <<"gcr.io/a">>
PortId == <<"localhost", ":", "5000", "/a">>
PkgVersion == <<"2.0">>

Tagged(id) == Str(DockerURI(id) \o <<":", "1.0">>)

\* the elements of a buildpacks or dependencies array
Entries ==
    { Tbl([uri |-> Tagged(PkgId)]),
      Tbl([uri |-> Str(DockerURI(PkgId))]),
      Tbl([id |-> Str(<<"x">>), uri |-> Tagged(PkgId)]),
      Tbl([uri |-> Tagged(PkgId \o <<"-other">>)]),
      Tbl([uri |-> Tagged(<<"gcr.io/b">>)]),
      Tbl([uri |-> Tagged(PortId)]),
      Tbl([uri |-> Num(1)]),
      Tbl([id |-> Str(<<"x">>)]),
      Str(<<"x">>) }

EntryLists == UNION {[1..n -> Entries] : n \in 0..MaxEntries}

PackageFiles ==
    {<<Line(<<"#", "lic">>, NoValue, TRUE), Line(<<"a">>, S1, TRUE), Line(<<key>>, Arr(es), TRUE)>> :
        key \in {"buildpacks", "dependencies"}, es \in EntryLists}
    \cup
    {<<Line(<<key>>, v, TRUE)>> :
        key \in {"buildpacks", "dependencies"},
        v \in {S1, Tbls(<<[uri |-> Tagged(PkgId)]>>)}}

InitPackage == file \in PackageFiles /\ Idle

CallPackageDependencyUpdate ==
    /\ op = "none"
    /\ \E key \in {"buildpacks", "dependencies"}, id \in {PkgId, PortId}, fault \in FaultKinds :
         \E f \in {FnUpdateByKey(key, id, PkgVersion)} :
           \E r \in {UpdateTOMLFile(file, f, fault)} :
             Returned("PackageDependencyUpdate", <<f>>, r)
    /\ UNCHANGED <<b, matched, record, arch>>
    /\ UNCHANGED builderVars
    /\ UNCHANGED packagerVars
    /\ UNCHANGED earlier

NextPackage == CallPackageDependencyUpdate

SpecPackage == InitPackage /\ [][NextPackage]_vars

----------------------------------------------------------------------------
(* C30 *)

\* the uri names the package id, with or without a tag
ReferencesExactly(uri, id) ==
    \/ uri = DockerURI(id)
    \/ /\ StringsHasPrefix(uri, DockerURI(id) \o <<":">>)
       /\ Len(uri) > Len(DockerURI(id)) + 1

\* the array under key k of the document c, <<>> when there is none
EntriesOf(c, k) ==
    LET md == Unmarshal(c).md IN
    IF k \in DOMAIN md /\ IsArr(md[k]) THEN md[k].arr ELSE <<>>

\* C30, as claimed: a successful package-dependency update sets the uri of
\* the entries whose uri is docker://<id> or docker://<id>:<tag> to
\* docker://<id>:<version> and leaves every other entry, every other field
\* and every other key of the document as it was
C30_OnlyExactReferencesRewritten ==
    (op = "PackageDependencyUpdate" /\ err = "") =>
      LET f == fns[1]
          old == EntriesOf(before, f.key)
          new == EntriesOf(file, f.key)
      IN  /\ \A k \in DOMAIN Unmarshal(before).md \ {f.key} :
                /\ k \in DOMAIN Unmarshal(file).md
                /\ Unmarshal(file).md[k] = Unmarshal(before).md[k]
          /\ Len(new) = Len(old)
          /\ \A i \in DOMAIN old :
               IF /\ IsTbl(old[i])
                  /\ "uri" \in DOMAIN old[i].tbl
                  /\ IsStr(old[i].tbl["uri"])
                  /\ ReferencesExactly(old[i].tbl["uri"].str, f.val.id)
               THEN new[i] = Tbl(SetKey(old[i].tbl, "uri",
                                        Str(DockerURI(f.val.id) \o <<":">> \o f.val.version)))
               ELSE new[i] = old[i]

----------------------------------------------------------------------------
(* the two implementations of Update on documents of the legacy scheme *)

PurlEmptyArch == <<"p@", "1", "?", "arch=">>

\* a record of the legacy scheme: sha256, no checksum, no arch, no purls
LegacyOnly(r) ==
    /\ "sha256" \in DOMAIN r
    /\ {"checksum", "arch", "purls"} \cap DOMAIN r = {}

EarlierRecords ==
    {r \in Records : LegacyOnly(r)}
    \cup
    { [purl |-> Str(PurlEmptyArch)] @@ Legacy(JRE, V1),
      [purl |-> Str(PurlAmd)] @@ Legacy(JRE, V1),
      [purl |-> Num(1234)] @@ Legacy(JRE, V2) }

EarlierFiles ==
    {<<Line(<<"#", "lic">>, NoValue, TRUE), Line(<<"metadata">>, Tbl([dependencies |-> Tbls(ds)]), TRUE)>> :
        ds \in UNION {[1..n -> EarlierRecords] : n \in 0..MaxDeps}}
    \cup
    { <<Line(<<"a">>, S1, TRUE)>>,
      <<Line(<<"metadata">>, S1, TRUE)>>,
      <<Line(<<"metadata">>, Tbl([name |-> S1]), TRUE)>>,
      <<Line(<<"metadata">>, Tbl([dependencies |-> Arr(<<>>)]), TRUE)>>,
      <<Line(<<"metadata">>, NoValue, TRUE)>> }

InitEarlier == file \in EarlierFiles /\ Idle

\* one request handed to both implementations on the same file
CallBothUpdates ==
    /\ op = "none"
    /\ \E bb \in Requests, fault \in FaultKinds \ {"stat"} :
         \E eols \in Lookups(bb, fault, file) :
           \E r \in {Update(file, bb, eols, fault)} :
           /\ op' = "BothUpdates"
           /\ b' = bb
           /\ before' = file
           /\ file' = r.file
           /\ err' = r.err
           /\ io' = r.io
           /\ matched' = r.matched
           /\ earlier' = EarlierUpdate(file, bb, eols, fault)
    /\ UNCHANGED <<fns, calls, record, arch>>
    /\ UNCHANGED builderVars
    /\ UNCHANGED packagerVars

NextEarlier == CallBothUpdates

SpecEarlier == InitEarlier /\ [][NextEarlier]_vars

----------------------------------------------------------------------------
(* C28 *)

\* C28, as claimed: on a document whose records are all of the legacy scheme
\* the two implementations of Update select the same records, leave the same
\* document and report the same error
C28_EarlierUpdateIsEquivalent ==
    (/\ op = "BothUpdates"
     /\ \A i \in DOMAIN DepsOf(before) : LegacyOnly(DepsOf(before)[i])) =>
        /\ earlier.matched = matched
        /\ earlier.file = file
        /\ earlier.err = err

====
